---- MODULE Spec2Model ----
(***************************************************************************)
(* A model of the Mosoteach quiz-solving pipeline.                         *)
(*                                                                         *)
(*   SpecServer    the web server's run bookkeeping: handleStart,          *)
(*                 handleStop, handleQuizzes, handleLogin and the run      *)
(*                 worker goroutine (internal/web/server.go)               *)
(*   SpecResolver  BrowserExecutor.getBatchAnswers: chunking, degraded     *)
(*                 per-question requests and cancellation                  *)
(*   SpecRun       one run: ProcessQuizzesWithContext over                 *)
(*                 processQuizWithProgress, and the terminal event         *)
(*   SpecInject    the text functions: parseBatchAnswers,                  *)
(*                 batchSubmitAnswers and the in-page fill script          *)
(*                                                                         *)
(* Every specification drives its own group of variables and leaves the    *)
(* other groups at their initial values.                                   *)
(***************************************************************************)
EXTENDS Integers, Sequences, FiniteSets, TLC

(***************************************************************************)
(* Bounds of the model.                                                    *)
(***************************************************************************)
\* requests (Start, FetchQuizzes, Login) accepted over one behaviour
MaxTasks == 3
\* questions of the quiz handed to getBatchAnswers
MaxQuestions == 25
\* model requests that fail (not counting those a cancelled context fails)
MaxFailures == 2
\* A run works through at most this many quizzes
MaxQuizzes == 2
\* A quiz page of a run holds at most this many questions
MaxExtracted == 2
\* A page's markup holds at most this many of the sentinel markers
MaxMarkers == 1
\* A page handed to the injection holds at most this many questions
MaxPageQuestions == 4
\* The configured submit delay is at most this many seconds
MaxDelay == 3
\* A page holds at most this many type markers and this many stems
MaxDomItems == 2
\* Listeners of the event stream
MaxListeners == 2
\* Events produced in a behaviour
MaxEvents == 4
\* Events a channel holds in the model
MaxBuffered == 2
\* Configured model profiles
MaxProfiles == 3
\* Lines of a response handed to parseBatchAnswers
MaxLines == 3
\* questionCount handed to parseBatchAnswers
MaxSlots == 2

(***************************************************************************)
(* Program constants.                                                      *)
(***************************************************************************)
batchSize == 10
\* server.go 599: make(chan ProgressEvent, 100)
clientChanSize == 100

VARIABLES
    \* ---- Server (internal/web/server.go) ----
    running,      \* s.status.Running
    cancelFunc,   \* s.cancelFunc: the task whose context it cancels, 0 = nil
    executor,     \* s.executor: the task whose executor it is, 0 = nil
    kind,         \* task -> "none" | "start" | "quizzes" | "login"
    pc,           \* task -> position of its handler / goroutine
    ctxDone,      \* task -> its context has been cancelled
    browser,      \* task -> "none" | "up" | "down": its executor's browser
    runErr,       \* task -> "none" | "nil" | "err": what the pipeline returned
    terminal,     \* task -> "none" | "complete" | "cancelled" | "error"
    nextTask,     \* the next request gets this id
    reply,        \* the last HTTP response body's outcome
    \* ---- getBatchAnswers (internal/browser/browser.go) ----
    questions,    \* the questions, each known by its 0-based index
    allAnswers,   \* the answer list being filled
    batchStart,   \* the loop variable of the chunk loop
    qi,           \* the loop variable i of the degraded per-question loop
    rpc,          \* position in getBatchAnswers
    ctxCancelled, \* ctx.Done() is closed
    ret,          \* what getBatchAnswers returned: [list, err]
    prompts,      \* history: the chunk prompts sent: the questions in each, and the reply
    singles,      \* history: the per-question requests sent
    failedSlots,  \* history: the indices whose per-question request failed
    failures,     \* history: model requests that failed so far
    cancelSeen,   \* history: where getBatchAnswers stood when ctx was cancelled
    \* ---- One run: ProcessQuizzesWithContext (internal/browser/browser.go) ----
    quizzes,      \* the quiz list, each quiz known by its URL
    qpos,         \* the quiz the loop is at (1-based)
    ppc,          \* position of the run's worker
    tokenCancelled, \* the run's ctx is cancelled
    chromeUp,     \* the browser session is usable
    page,         \* the sentinel markers present in the loaded page's markup
    conListVisible, \* div.con-list becomes visible on the loaded page
    pageHTML,     \* the Go variable pageHTML of processQuizWithProgress
    extracted,    \* how many questions parseQuestions returned
    calledCancelled, \* ctx was already cancelled when getBatchAnswers was called
    quizErr,      \* what processQuizWithProgress returned
    procErr,      \* what the pipeline returned to the worker
    completedURLs, \* cfg.CompletedURLs, the completion ledger
    events,       \* the events sent, oldest first
    markupRead,   \* history: url -> the markup read right after navigation
    invoked,      \* history: the <<url, stage>> pairs that were invoked
    outcome,      \* history: url -> how its processing ended
    cancelPoint,  \* history: where the worker stood when ctx was cancelled
    \* ---- Resolution to injection of one page (internal/browser/browser.go) ----
    pageQuestions, \* the types of the extracted questions, in page order
    modelText,    \* what the model answers to each question
    replyStyle,   \* how the reply is laid out, or "degraded" for per-question requests
    resolved,     \* the answer list getBatchAnswers returned
    answerList,   \* the list batchSubmitAnswers hands to the script
    apos,         \* the script's loop variable a (1-based)
    writes,       \* the inputs written and options clicked on the page
    ipc,          \* position between resolution and the end of the script
    \* ---- submitQuiz (internal/browser/browser.go) ----
    subDelay,      \* the configured submit delay, in seconds
    subElapsed,    \* the loop variable elapsed of the countdown
    subPc,         \* position in submitQuiz
    subTrace,      \* history: the events sent and the clicks made, oldest first
    subChromeUp,   \* the browser session is usable
    subRecorded,   \* the quiz URL is in the completion ledger
    \* ---- parseQuestions (internal/browser/browser.go) ----
    dom,           \* the live page: its type markers and the number of its stems
    snapshot,      \* htmlContent, the static snapshot: the same, as the patterns see it
    scriptOutcome, \* history: how the in-page script went
    xpc,           \* position in parseQuestions
    fallbackCalls, \* history: the calls of parseQuestionsRegex
    xresult,       \* what parseQuestions returned, and which strategy it came from
    \* ---- The event stream (internal/web/server.go) ----
    sseClients,    \* Server.sseClients: the registered listeners
    clientChan,    \* listener -> its channel's buffered events
    written,       \* listener -> what handleSSE wrote to its response
    produced,      \* the number of sendSSEEvent calls made so far
    listenerAt,    \* listener -> position of its handleSSE
    connectedAt,   \* history: listener -> produced when it registered
    overflowed,    \* history: listener -> the events that found its channel full
    \* ---- The entry points of a run (internal/browser/browser.go) ----
    entry,         \* "all": RunWithContext, "selection": RunMultipleQuizzes
    wanted,        \* the selected URLs, or the quizzes the site lists
    todo,          \* the list given to ProcessQuizzesWithContext
    tpos,          \* the loop's position in todo
    opc,           \* position of the run
    oCancelled,    \* the run's ctx is cancelled
    oBrowserUp,    \* the browser of the run is up
    ledger,        \* Config.CompletedURLs
    ledgerAtStart, \* history: the ledger when the run began
    sent,          \* the events sent so far
    navigated,     \* history: the URLs navigated to, in order
    loginResult,   \* history: how Login went
    oErr,          \* the error last returned
    \* ---- Config (internal/models/models.go) ----
    cfgCompleted,  \* Config.CompletedURLs
    cachedQuizzes, \* Config.CachedQuizzes, with the raw flags
    file,          \* the configuration file: its URLs and cached quizzes
    \* ---- ModelManager (internal/models/models.go) ----
    profiles,      \* Config.Models: enabled, key present, and the reply it will give
    mmodels,       \* ModelManager.models: positions in profiles
    mpos,          \* the loop's position in mmodels
    mpc,           \* position of the manager
    requests,      \* history: the profiles asked, in order
    lastErr,       \* lastErr: the profile whose error it is, 0 = nil
    mresult,       \* what GetAnswer returned
    \* ---- The server mutex and the statements of the handlers (internal/web/server.go) ----
    mu,            \* the holder of s.mu, or "free"
    hpc,           \* the statement each handler (and its goroutine) is at
    statusRunning, \* s.status.Running
    sCancelFunc,   \* s.cancelFunc: "nil" or the handler whose ctx it cancels
    sExecutor,     \* s.executor is set
    tokenDone,     \* the ctx made by a handler is cancelled
    handles,       \* the registered executor's timeoutCancel, cancel, allocCancel are set
    chrome,        \* the browser of the registered executor
    stopAt,        \* the position of a BrowserExecutor.Stop call in StopOrder
    stopTrace,     \* history: what the current Stop request did, in order
    nilSeen,       \* history: the handles the current Stop request found nil
    \* ---- One quiz from extraction to submission (processQuizWithProgress, browser.go 558-603) ----
    qzPc,          \* position in processQuizWithProgress
    qzQuestions,   \* len(questions), what parseQuestions found
    qzControls,    \* the slots whose control the injection script finds
    qzUsable,      \* a usable model profile exists
    qzAnswers,     \* allAnswers, "" where there is none
    qzIndex,       \* i of the degraded loop
    qzCancelled,   \* the run's ctx is cancelled
    qzErr,         \* what the call returned
    qzStages,      \* history: the stages invoked
    qzRequests,    \* history: the model requests issued
    qzFailed,      \* history: the model requests that failed
    qzFilled,      \* filledCount
    qzFillErr,     \* history: batchSubmitAnswers returned an error
    qzClicks,      \* history: the submit clicks performed
    qzEvents,      \* the events sent
    qzLedger,      \* the quiz URL is in Config.CompletedURLs
    qzLedgerBefore, \* history: qzLedger when the call began
    \* ---- parseBatchAnswers applied to a response (internal/browser/browser.go) ----
    prResponse,    \* the response text
    prCount,       \* questionCount
    prPc,          \* "call" before parseBatchAnswers ran, "done" after
    prTagged,      \* history: answers after the loop over the tag pattern
    prOut,         \* what parseBatchAnswers returned
    \* ---- One extraction strategy applied to a page (parseQuestions, parseQuestionsRegex) ----
    pgTypes,       \* the type markers the strategy finds, in page order
    pgStems,       \* the stems it finds, in page order
    pgBlocks,      \* the option blocks it finds: the number of options of each
    pgStrategy,    \* "script" (jsGetQuestions) or "regex" (parseQuestionsRegex)
    pgPc,          \* "call" before the strategy ran, "done" after
    pgQuestions,   \* the questions it returned
    \* ---- Server status under a run's progress events (progressCallback) ----
    stPc,          \* position of the run that sends the events
    stQuizTotal,   \* the number of quizzes of the run
    stQuiz,        \* the number of the quiz being processed
    stCount,       \* the questions found on its page
    stSent,        \* the questions whose chunk has been resolved
    stDelay,       \* the configured submit delay in seconds
    stElapsed,     \* the seconds of the delay that have passed
    stProgress,    \* s.status.Progress
    stTotal,       \* s.status.Total
    \* ---- Teardown of one executor by the Stop request and the worker (BrowserExecutor.Stop) ----
    tdPc,          \* caller -> its position in Stop
    tdAt,          \* caller -> the statement of Stop it is at, 0 = none
    tdHandle,      \* handle -> the executor's field is non-nil
    tdCalls,       \* handle -> the times it has been invoked
    tdExecutor,    \* s.executor is this executor
    \* ---- The listener set under s.sseMu (handleSSE, sendSSEEvent) ----
    bcAt,          \* listener -> position of its handleSSE
    bcClients,     \* s.sseClients: the listeners whose channel is registered
    bcClosed,      \* the listeners whose channel is closed
    bcReaders,     \* the senders that hold s.sseMu for reading
    bcWriter,      \* the listener that holds s.sseMu for writing, 0 = none
    bcTodo,        \* sender -> the channels its loop has still to offer to
    bcSent,        \* the number of sendSSEEvent calls begun
    bcGot          \* listener -> the events offered to its channel

serverVars == <<running, cancelFunc, executor, kind, pc, ctxDone, browser,
                runErr, terminal, nextTask, reply>>

resolverVars == <<questions, allAnswers, batchStart, qi, rpc, ctxCancelled, ret,
                  prompts, singles, failedSlots, failures, cancelSeen>>

runVars == <<quizzes, qpos, ppc, tokenCancelled, chromeUp, page, conListVisible,
             pageHTML, extracted, calledCancelled, quizErr, procErr, completedURLs,
             events, markupRead, invoked, outcome, cancelPoint>>

injectVars == <<pageQuestions, modelText, replyStyle, resolved, answerList, apos,
                writes, ipc>>

submitVars == <<subDelay, subElapsed, subPc, subTrace, subChromeUp, subRecorded>>

extractVars == <<dom, snapshot, scriptOutcome, xpc, fallbackCalls, xresult>>

sseVars == <<sseClients, clientChan, written, produced, listenerAt, connectedAt,
             overflowed>>

orchVars == <<entry, wanted, todo, tpos, opc, oCancelled, oBrowserUp, ledger,
              ledgerAtStart, sent, navigated, loginResult, oErr>>

configVars == <<cfgCompleted, cachedQuizzes, file>>

managerVars == <<profiles, mmodels, mpos, mpc, requests, lastErr, mresult>>

muVars == <<mu, hpc, statusRunning, sCancelFunc, sExecutor, tokenDone, handles, chrome,
            stopAt, stopTrace, nilSeen>>

quizVars == <<qzPc, qzQuestions, qzControls, qzUsable, qzAnswers, qzIndex, qzCancelled,
              qzErr, qzStages, qzRequests, qzFailed, qzFilled, qzFillErr, qzClicks,
              qzEvents, qzLedger, qzLedgerBefore>>

parseVars == <<prResponse, prCount, prPc, prTagged, prOut>>

pairVars == <<pgTypes, pgStems, pgBlocks, pgStrategy, pgPc, pgQuestions>>

statusVars == <<stPc, stQuizTotal, stQuiz, stCount, stSent, stDelay, stElapsed,
                stProgress, stTotal>>

teardownVars == <<tdPc, tdAt, tdHandle, tdCalls, tdExecutor>>

bcastVars == <<bcAt, bcClients, bcClosed, bcReaders, bcWriter, bcTodo, bcSent, bcGot>>

vars == <<serverVars, resolverVars, runVars, injectVars, submitVars, extractVars, orchVars, sseVars, configVars, managerVars, muVars, quizVars, parseVars, pairVars, statusVars, teardownVars, bcastVars>>

Tasks == 1..MaxTasks

(***************************************************************************)
(* Text.  A string is a sequence of characters; a character is a one-token  *)
(* string.  The characters outside ASCII are named:                         *)
(*   LB  U+3010 left lenticular bracket    RB  U+3011 right bracket         *)
(*   DA, AN  the two characters of the word "answer" (U+7B54, U+6848)       *)
(*   FWCOLON U+FF1A   FWCOMMA U+FF0C   FWSTOP U+3002   DUNHAO U+3001        *)
(*   FWRPAREN U+FF09  H1..H4 the four characters of the fill answer         *)
(***************************************************************************)
LB == "LB"
RB == "RB"
DA == "DA"
AN == "AN"
FWCOLON == "FWCOLON"
FWCOMMA == "FWCOMMA"
FWSTOP == "FWSTOP"
DUNHAO == "DUNHAO"
FWRPAREN == "FWRPAREN"
NL == "\n"
SP == " "
H1 == "H1"
H2 == "H2"
H3 == "H3"
H4 == "H4"

Digits == <<"0", "1", "2", "3", "4", "5", "6", "7", "8", "9">>
DigitSet == {Digits[i] : i \in 1..10}
DigitValue(c) == (CHOOSE i \in 1..10 : Digits[i] = c) - 1
\* \s of the regexp package, and what strings.TrimSpace trims
SpaceSet == {SP, NL, "\t", "\r"}
\* [A-Za-z] as far as the model's alphabet goes
LetterSet == {"A", "B", "C", "D", "S", "a", "b", "x"}

\* The number of consecutive characters of s from position p on that are in
\* set cs (neg = FALSE) or not in it (neg = TRUE): a greedy character class.
RECURSIVE RunLen(_, _, _, _)
RunLen(s, p, cs, neg) ==
    IF p > Len(s) \/ ((s[p] \in cs) = neg) THEN 0
    ELSE 1 + RunLen(s, p + 1, cs, neg)

Sub(s, from, to) == IF from > to THEN <<>> ELSE SubSeq(s, from, to)

\* strings.TrimSpace
RECURSIVE TrimLeft(_)
TrimLeft(s) == IF s # <<>> /\ Head(s) \in SpaceSet THEN TrimLeft(Tail(s)) ELSE s
RECURSIVE TrimRight(_)
TrimRight(s) ==
    IF s # <<>> /\ s[Len(s)] \in SpaceSet THEN TrimRight(Sub(s, 1, Len(s) - 1)) ELSE s
TrimSpace(s) == TrimRight(TrimLeft(s))

\* strings.ReplaceAll(s, old, new) for a one-character old; new is a string
RECURSIVE ReplaceAll(_, _, _)
ReplaceAll(s, old, new) ==
    IF s = <<>> THEN <<>>
    ELSE (IF Head(s) = old THEN new ELSE <<Head(s)>>) \o ReplaceAll(Tail(s), old, new)

\* strings.Contains(s, c) for a one-character c
Contains(s, c) == \E i \in 1..Len(s) : s[i] = c

\* strings.Split(s, c)[0]: the part before the first c
FirstPart(s, c) == Sub(s, 1, RunLen(s, 1, {c}, TRUE))

\* fmt.Sscanf(digits, "%d", &idx)
RECURSIVE Sscanf(_)
Sscanf(ds) ==
    IF ds = <<>> THEN 0 ELSE 10 * Sscanf(Sub(ds, 1, Len(ds) - 1)) + DigitValue(ds[Len(ds)])

\* fmt.Sprintf("%d", n) for n >= 0
RECURSIVE Itoa(_)
Itoa(n) == IF n < 10 THEN <<Digits[n + 1]>> ELSE Itoa(n \div 10) \o <<Digits[(n % 10) + 1]>>

(***************************************************************************)
(* parseBatchAnswers (browser.go 970-1015)                                 *)
(***************************************************************************)
NoMatch == [ok |-> FALSE, num |-> <<>>, text |-> <<>>, end |-> 0]

\* The largest k in 0..m (the greedy [...]* gives back one character at a
\* time) such that the character at q + k exists and is outside stop; -1 if
\* there is none.
RECURSIVE GiveBack(_, _, _, _)
GiveBack(s, q, k, stop) ==
    IF k < 0 THEN -1
    ELSE IF q + k <= Len(s) /\ s[q + k] \notin stop THEN k
    ELSE GiveBack(s, q, k - 1, stop)

\* A match at position p of the answer pattern
\*   LB DA AN (\d+) RB [FWCOLON : \s]* ([^\n LB]+)
answerPatternAt(s, p) ==
    IF ~(p + 2 <= Len(s) /\ s[p] = LB /\ s[p + 1] = DA /\ s[p + 2] = AN) THEN NoMatch
    ELSE LET d == RunLen(s, p + 3, DigitSet, FALSE)
             r == p + 3 + d
         IN  IF d = 0 \/ r > Len(s) \/ s[r] # RB THEN NoMatch
             ELSE LET q == r + 1
                      m == RunLen(s, q, {FWCOLON, ":"} \cup SpaceSet, FALSE)
                      k == GiveBack(s, q, m, {NL, LB})
                  IN  IF k < 0 THEN NoMatch
                      ELSE LET g == RunLen(s, q + k, {NL, LB}, TRUE)
                           IN  [ok |-> TRUE, num |-> Sub(s, p + 3, r - 1),
                                text |-> Sub(s, q + k, q + k + g - 1),
                                end |-> q + k + g - 1]

\* A match at position p of the alternative pattern
\*   (?m)^(\d+)[. DUNHAO ) FWRPAREN]\s*([A-Za-z, FWCOMMA]+|[^\n]+)
RECURSIVE altGroupFrom(_, _, _)
altGroupFrom(s, q, k) ==
    IF k < 0 THEN [ok |-> FALSE, from |-> 0, len |-> 0]
    ELSE LET a1 == RunLen(s, q + k, LetterSet \cup {",", FWCOMMA}, FALSE)
             a2 == RunLen(s, q + k, {NL}, TRUE)
         IN  IF a1 > 0 THEN [ok |-> TRUE, from |-> q + k, len |-> a1]
             ELSE IF a2 > 0 THEN [ok |-> TRUE, from |-> q + k, len |-> a2]
             ELSE altGroupFrom(s, q, k - 1)

altPatternAt(s, p) ==
    IF ~(p <= Len(s) /\ (p = 1 \/ s[p - 1] = NL)) THEN NoMatch
    ELSE LET d == RunLen(s, p, DigitSet, FALSE)
             r == p + d
         IN  IF d = 0 \/ r > Len(s) \/ s[r] \notin {".", DUNHAO, ")", FWRPAREN}
               THEN NoMatch
             ELSE LET q == r + 1
                      m == RunLen(s, q, SpaceSet, FALSE)
                      g == altGroupFrom(s, q, m)
                  IN  IF ~g.ok THEN NoMatch
                      ELSE [ok |-> TRUE, num |-> Sub(s, p, r - 1),
                            text |-> Sub(s, g.from, g.from + g.len - 1),
                            end |-> g.from + g.len - 1]

\* regexp.FindAllStringSubmatch(response, -1): the successive leftmost
\* matches, each search starting where the previous match ended.
RECURSIVE FindAllAnswer(_, _)
FindAllAnswer(s, p) ==
    IF p > Len(s) THEN <<>>
    ELSE LET m == answerPatternAt(s, p)
         IN  IF m.ok THEN <<m>> \o FindAllAnswer(s, m.end + 1)
             ELSE FindAllAnswer(s, p + 1)

RECURSIVE FindAllAlt(_, _)
FindAllAlt(s, p) ==
    IF p > Len(s) THEN <<>>
    ELSE LET m == altPatternAt(s, p)
         IN  IF m.ok THEN <<m>> \o FindAllAlt(s, m.end + 1)
             ELSE FindAllAlt(s, p + 1)

\* browser.go 984-988: the cleaning of a tagged answer
CleanAnswer(text) ==
    TrimSpace(ReplaceAll(ReplaceAll(TrimSpace(text), FWSTOP, <<>>), FWCOMMA, <<",">>))

\* browser.go 1006-1007: the cleaning of an answer of the alternative pattern
CleanAltAnswer(text) == ReplaceAll(TrimSpace(text), FWCOMMA, <<",">>)

\* The slot a tag with number idx is stored in (answers[idx-1], 0-based; the
\* sequences of the model are 1-based).
SlotOfTagShifted(idx) == IF idx > 1 THEN idx - 1 ELSE idx
SlotOfTag(idx) == idx

\* browser.go 979-993: the loop over the matches of the answer pattern
RECURSIVE storeTagged(_, _, _)
storeTagged(answers, matches, questionCount) ==
    IF matches = <<>> THEN answers
    ELSE LET idx == Sscanf(Head(matches).num)
             next == IF idx >= 1 /\ idx <= questionCount
                       THEN [answers EXCEPT ![SlotOfTag(idx)] = CleanAnswer(Head(matches).text)]
                       ELSE answers
         IN  storeTagged(next, Tail(matches), questionCount)

\* browser.go 1005: answers[idx-1] == ""
SlotFreeAlways(answers, idx) == TRUE

SlotFree(answers, idx) == answers[SlotOfTag(idx)] = <<>>

\* browser.go 1001-1011: the loop over the matches of the alternative pattern
RECURSIVE storeAlt(_, _, _)
storeAlt(answers, matches, questionCount) ==
    IF matches = <<>> THEN answers
    ELSE LET idx == Sscanf(Head(matches).num)
             next == IF idx >= 1 /\ idx <= questionCount /\ SlotFree(answers, idx)
                       THEN [answers EXCEPT ![SlotOfTag(idx)] = CleanAltAnswer(Head(matches).text)]
                       ELSE answers
         IN  storeAlt(next, Tail(matches), questionCount)

countNonEmpty(answers) == Cardinality({i \in 1..Len(answers) : answers[i] # <<>>})

parseBatchAnswers(response, questionCount) ==
    LET tagged == storeTagged([i \in 1..questionCount |-> <<>>],
                              FindAllAnswer(response, 1), questionCount)
    IN  IF countNonEmpty(tagged) < questionCount
          THEN storeAlt(tagged, FindAllAlt(response, 1), questionCount)
          ELSE tagged

(***************************************************************************)
(* Server                                                                  *)
(***************************************************************************)
NewServer ==
    /\ running = FALSE
    /\ cancelFunc = 0
    /\ executor = 0
    /\ kind = [t \in Tasks |-> "none"]
    /\ pc = [t \in Tasks |-> "idle"]
    /\ ctxDone = [t \in Tasks |-> FALSE]
    /\ browser = [t \in Tasks |-> "none"]
    \* not part of the server: history of what each worker returned and reported
    /\ runErr = [t \in Tasks |-> "none"]
    /\ terminal = [t \in Tasks |-> "none"]
    /\ nextTask = 1
    /\ reply = "none"

\* The locked section that opens handleStart, handleQuizzes and handleLogin:
\* reject when a task is running, else take the running flag.
AcceptMayRun == ~running

\* handleStart, locked section (server.go 286-299) and the response.
handleStart ==
    /\ nextTask \in Tasks
    /\ IF AcceptMayRun
         THEN /\ running' = TRUE
              /\ kind' = [kind EXCEPT ![nextTask] = "start"]
              /\ pc' = [pc EXCEPT ![nextTask] = "accepted"]
              /\ nextTask' = nextTask + 1
              /\ reply' = "started"
         ELSE /\ reply' = "rejected"
              /\ UNCHANGED <<running, kind, pc, nextTask>>
    /\ UNCHANGED <<cancelFunc, executor, ctxDone, browser, runErr, terminal>>

\* handleQuizzes, locked section (server.go 453-468).
handleQuizzes ==
    /\ nextTask \in Tasks
    /\ IF AcceptMayRun
         THEN /\ running' = TRUE
              /\ kind' = [kind EXCEPT ![nextTask] = "quizzes"]
              /\ pc' = [pc EXCEPT ![nextTask] = "accepted"]
              /\ nextTask' = nextTask + 1
              /\ reply' = "fetching"
         ELSE /\ reply' = "conflict"
              /\ UNCHANGED <<running, kind, pc, nextTask>>
    /\ UNCHANGED <<cancelFunc, executor, ctxDone, browser, runErr, terminal>>

\* handleLogin, locked section (server.go 659-671); the goroutine is spawned
\* at once, there is no cancellation handle.
handleLogin ==
    /\ nextTask \in Tasks
    /\ IF AcceptMayRun
         THEN /\ running' = TRUE
              /\ kind' = [kind EXCEPT ![nextTask] = "login"]
              /\ pc' = [pc EXCEPT ![nextTask] = "run"]
              /\ nextTask' = nextTask + 1
              /\ reply' = "logging_in"
         ELSE /\ reply' = "rejected"
              /\ UNCHANGED <<running, kind, pc, nextTask>>
    /\ UNCHANGED <<cancelFunc, executor, ctxDone, browser, runErr, terminal>>

\* ctx, cancel := context.WithCancel(...); s.cancelFunc = cancel
\* (server.go 302-303 and 471-472), written after the lock was released.
\* handleStart then spawns the worker goroutine.
setCancelFunc(t) ==
    /\ pc[t] = "accepted"
    /\ cancelFunc' = t
    /\ pc' = [pc EXCEPT ![t] = IF kind[t] = "start" THEN "spawned" ELSE "run"]
    /\ UNCHANGED <<running, executor, kind, ctxDone, browser, runErr, terminal,
                   nextTask, reply>>

\* worker: executor := NewBrowserExecutorWithCallback; s.executor = executor
\* (server.go 315-320).
registerExecutor(t) ==
    /\ pc[t] = "spawned"
    /\ executor' = t
    /\ pc' = [pc EXCEPT ![t] = "run"]
    /\ UNCHANGED <<running, cancelFunc, kind, ctxDone, browser, runErr, terminal,
                   nextTask, reply>>

\* BrowserExecutor.Start (browser.go 139-161): the browser handles are set.
launchBrowser(t) ==
    /\ pc[t] = "run"
    /\ browser' = [browser EXCEPT ![t] = "up"]
    /\ pc' = [pc EXCEPT ![t] = "launched"]
    /\ UNCHANGED <<running, cancelFunc, executor, kind, ctxDone, runErr, terminal,
                   nextTask, reply>>

\* The pipeline after the launch (Login, then the quizzes or the discovery),
\* up to its return and the deferred executor.Stop() (browser.go 1437,
\* server.go 485 and 684).  It returns an error or nil.
pipelineReturn(t) ==
    /\ pc[t] = "launched"
    /\ \E e \in {"nil", "err"} : runErr' = [runErr EXCEPT ![t] = e]
    /\ browser' = [browser EXCEPT ![t] = "down"]
    /\ pc' = [pc EXCEPT ![t] = IF kind[t] = "start" THEN "returned" ELSE "deferred"]
    /\ UNCHANGED <<running, cancelFunc, executor, kind, ctxDone, terminal,
                   nextTask, reply>>

\* The terminal event of a run (server.go 334-358).
TerminalOf(err, cancelled) ==
    IF err = "err" THEN (IF cancelled THEN "cancelled" ELSE "error")
    ELSE "complete"

reportTerminal(t) ==
    /\ pc[t] = "returned"
    /\ terminal' = [terminal EXCEPT ![t] = TerminalOf(runErr[t], ctxDone[t])]
    /\ pc' = [pc EXCEPT ![t] = "deferred"]
    /\ UNCHANGED <<running, cancelFunc, executor, kind, ctxDone, browser, runErr,
                   nextTask, reply>>

\* The deferred cleanup of a task (server.go 307-313, 474-479, 675-679).
CleanupCancelFunc(t) == IF kind[t] \in {"start", "quizzes"} THEN 0 ELSE cancelFunc
CleanupExecutorKept(t) == executor

CleanupExecutor(t) == IF kind[t] = "start" THEN 0 ELSE executor

deferredCleanup(t) ==
    /\ pc[t] = "deferred"
    /\ running' = FALSE
    /\ cancelFunc' = CleanupCancelFunc(t)
    /\ executor' = CleanupExecutor(t)
    /\ pc' = [pc EXCEPT ![t] = "done"]
    /\ UNCHANGED <<kind, ctxDone, browser, runErr, terminal, nextTask, reply>>

\* BrowserExecutor.Stop (browser.go 164-189) on the executor of task t: its
\* handles are cancelled when they are set, and nothing happens when
\* BrowserExecutor.Start has not run yet.
StopBrowser(b, t) == IF b[t] = "up" THEN [b EXCEPT ![t] = "down"] ELSE b

\* handleStop (server.go 400-411), one locked section.
handleStop ==
    /\ ctxDone' = IF cancelFunc # 0 THEN [ctxDone EXCEPT ![cancelFunc] = TRUE]
                  ELSE ctxDone
    /\ browser' = IF executor # 0 THEN StopBrowser(browser, executor) ELSE browser
    /\ executor' = 0
    /\ running' = FALSE
    /\ reply' = "stopped"
    /\ UNCHANGED <<cancelFunc, kind, pc, runErr, terminal, nextTask>>

\* The steps of task t's own goroutines after the gate: the handler's write
\* of the cancellation handle and the worker from its spawn to its deferred
\* cleanup.  Each is taken once it can be: the scheduler runs every
\* goroutine, every browser and model call returns, and the mutex is never
\* held for ever.
WorkerStep(t) ==
    \/ setCancelFunc(t)
    \/ registerExecutor(t)
    \/ launchBrowser(t)
    \/ pipelineReturn(t)
    \/ reportTerminal(t)
    \/ deferredCleanup(t)

WorkersRun == \A t \in Tasks : WF_serverVars(WorkerStep(t))

\* A run worker (the goroutine of handleStart) that has been accepted and has
\* not finished its deferred cleanup.
RunUnfinished(t) == kind[t] = "start" /\ pc[t] \notin {"idle", "done"}

\* A run worker inside the pipeline: spawned, and executor.Run... not returned.
RunExecuting(t) == kind[t] = "start" /\ pc[t] \in {"spawned", "run", "launched"}

\* C1: at most one run is active: a Start arriving while an accepted run's
\* worker has not finished is rejected, so no two run workers are ever
\* executing pipeline steps at the same time.
C1_AtMostOneActiveRun ==
    Cardinality({t \in Tasks : RunExecuting(t)}) <= 1

\* C2: a Stop request cancels the token and tears down the browser of every
\* run worker that is executing, whatever Start and Stop requests came before.
C2_StopCancelsExecutingRun ==
    [][handleStop =>
         \A t \in Tasks : RunExecuting(t) =>
             ctxDone'[t] /\ browser'[t] # "up"]_vars

\* C39: every accepted run eventually terminates, and the step that ends it
\* leaves the active flag false and the cancellation handle and the executor
\* handle cleared, whether the run completes, fails or is cancelled and
\* whether or not a Stop request is issued.  A run that was accepted stays
\* accepted and one that is done stays done, so "every accepted run is
\* eventually done" is "from some point on every accepted run is done".
C39_RunEventuallyCleansUp ==
    /\ <>[](\A t \in Tasks : kind[t] = "start" => pc[t] = "done")
    /\ [][\A t \in Tasks :
             (kind[t] = "start" /\ pc[t] # "done" /\ pc'[t] = "done") =>
                 (~running' /\ cancelFunc' = 0 /\ executor' = 0)]_vars

\* A run that a Stop request cancelled has reported it and cleaned up.
C39_Witness ==
    \E t \in Tasks :
        /\ kind[t] = "start"
        /\ pc[t] = "done"
        /\ ctxDone[t]
        /\ terminal[t] = "cancelled"
        /\ ~running
        /\ cancelFunc = 0
        /\ executor = 0

(***************************************************************************)
(* getBatchAnswers (browser.go 828-905)                                    *)
(***************************************************************************)
NoReturn == [list |-> <<>>, err |-> "none"]

ResolverIdle ==
    /\ questions = <<>>
    /\ allAnswers = <<>>
    /\ batchStart = 0
    /\ qi = 0
    /\ rpc = "off"
    /\ ctxCancelled = FALSE
    /\ ret = NoReturn
    /\ prompts = <<>>
    /\ singles = <<>>
    /\ failedSlots = {}
    /\ failures = 0
    /\ cancelSeen = "no"

\* The model's replies.  The answer a chunk reply gives for its tag j, and the
\* answer a per-question reply gives, name the request they answer, so that
\* the slot an answer lands in can be told from the answer.
ChunkLetters == <<"A", "B", "C", "D">>
ChunkAnswer(batchNum, j) == <<ChunkLetters[((batchNum - 1) % 4) + 1]>> \o Itoa(j)
SingleAnswer(q) == <<"S">> \o Itoa(q + 1)

ReplyShapes == {"all", "odd", "untagged"}

RECURSIVE ChunkReply(_, _, _, _)
ChunkReply(shape, batchNum, j, count) ==
    IF shape = "untagged" THEN <<"x", SP, "x">>
    ELSE IF j > count THEN <<>>
    ELSE (IF shape = "all" \/ j % 2 = 1
            THEN <<LB, DA, AN>> \o Itoa(j) \o <<RB>> \o ChunkAnswer(batchNum, j) \o <<NL>>
            ELSE <<>>)
         \o ChunkReply(shape, batchNum, j + 1, count)

\* UnifiedModel.GetAnswer (models.go 170): the content, trimmed
GetAnswer(content) == TrimSpace(content)

\* allAnswers := make([]string, len(questions))  (browser.go 833)
MakeAnswersShort(n) == [i \in 1..(n - 1) |-> <<>>]
MakeAnswers(n) == [i \in 1..n |-> <<>>]

\* batchEnd (browser.go 847-850)
BatchEnd(start, n) == IF start + batchSize > n THEN n ELSE start + batchSize

\* batchQuestions := questions[batchStart:batchEnd]  (browser.go 852)
batchQuestions == Sub(questions, batchStart + 1, BatchEnd(batchStart, Len(questions)))

\* batchNum := batchStart/batchSize + 1  (browser.go 853)
BatchNum(start) == (start \div batchSize) + 1

\* allAnswers[batchStart+i] = ans for every i  (browser.go 885-892)
CopyBatch(answers, start, batchAnswers) ==
    [k \in 1..Len(answers) |->
        IF k - start \in 1..Len(batchAnswers) THEN batchAnswers[k - start] ELSE answers[k]]

\* return allAnswers, ctx.Err()  (browser.go 843, 860, 868, 874)
CancelResultNoList(answers) == [list |-> <<>>, err |-> "ctx"]
CancelResult(answers) == [list |-> answers, err |-> "ctx"]

\* The next chunk to start after this one (browser.go 838: batchStart += batchSize)
NextBatchStartOverlap(start) == start + batchSize - 1
NextBatchStart(start) == start + batchSize

\* browser.go 829-836
getBatchAnswers ==
    /\ rpc = "call"
    /\ IF Len(questions) = 0
         THEN /\ ret' = [list |-> <<>>, err |-> "nil"]
              /\ rpc' = "ret"
              /\ UNCHANGED <<allAnswers, batchStart>>
         ELSE /\ allAnswers' = MakeAnswers(Len(questions))
              /\ batchStart' = 0
              /\ rpc' = "loop"
              /\ UNCHANGED ret
    /\ UNCHANGED <<questions, qi, ctxCancelled, prompts, singles, failedSlots,
                   failures, cancelSeen>>

\* browser.go 840-845 and 866-870: select { case <-ctx.Done(): return ...;
\* default: }, the token is looked at without waiting.
CheckCancelledNever(isDone) == FALSE

CheckCancelled(isDone) == isDone

\* browser.go 838-845 and 903-904: the head of the chunk loop
chunkLoopHead ==
    /\ rpc = "loop"
    /\ IF batchStart >= Len(questions)
         THEN ret' = [list |-> allAnswers, err |-> "nil"] /\ rpc' = "ret"
         ELSE IF CheckCancelled(ctxCancelled)
           THEN ret' = CancelResult(allAnswers) /\ rpc' = "ret"
           ELSE rpc' = "chunk" /\ UNCHANGED ret
    /\ UNCHANGED <<questions, allAnswers, batchStart, qi, ctxCancelled, prompts,
                   singles, failedSlots, failures, cancelSeen>>

\* browser.go 856-900 with getBatchAnswersForChunk (908-967): the chunk's
\* prompt is sent; the request fails when ctx is cancelled, and otherwise
\* answers or fails.
chunkRequest ==
    /\ rpc = "chunk"
    /\ IF ctxCancelled
         THEN /\ prompts' = Append(prompts, [qs |-> batchQuestions, reply |-> "cancelled"])
              /\ ret' = CancelResult(allAnswers)
              /\ rpc' = "ret"
              /\ UNCHANGED <<allAnswers, batchStart, qi, failures>>
         ELSE \/ \E shape \in ReplyShapes :
                   LET response == GetAnswer(ChunkReply(shape, BatchNum(batchStart), 1,
                                                        Len(batchQuestions)))
                       batchAnswers == parseBatchAnswers(response, Len(batchQuestions))
                   IN  /\ prompts' = Append(prompts, [qs |-> batchQuestions, reply |-> shape])
                       /\ allAnswers' = CopyBatch(allAnswers, batchStart, batchAnswers)
                       /\ batchStart' = NextBatchStart(batchStart)
                       /\ rpc' = "loop"
                       /\ UNCHANGED <<ret, qi, failures>>
              \/ /\ failures < MaxFailures
                 /\ prompts' = Append(prompts, [qs |-> batchQuestions, reply |-> "failed"])
                 /\ failures' = failures + 1
                 /\ qi' = 0
                 /\ rpc' = "degraded"
                 /\ UNCHANGED <<ret, allAnswers, batchStart>>
    /\ UNCHANGED <<questions, ctxCancelled, singles, failedSlots, cancelSeen>>

\* browser.go 864-870 and 881: the head of the per-question loop
degradedLoopHead ==
    /\ rpc = "degraded"
    /\ IF qi >= Len(batchQuestions)
         THEN batchStart' = NextBatchStart(batchStart) /\ rpc' = "loop" /\ UNCHANGED ret
         ELSE IF CheckCancelled(ctxCancelled)
           THEN ret' = CancelResult(allAnswers) /\ rpc' = "ret" /\ UNCHANGED batchStart
           ELSE rpc' = "single" /\ UNCHANGED <<ret, batchStart>>
    /\ UNCHANGED <<questions, allAnswers, qi, ctxCancelled, prompts, singles,
                   failedSlots, failures, cancelSeen>>

\* browser.go 871-879 with getAnswerWithContext (814-825)
singleRequest ==
    /\ rpc = "single"
    /\ singles' = Append(singles, batchQuestions[qi + 1])
    /\ IF ctxCancelled
         THEN /\ ret' = CancelResult(allAnswers)
              /\ rpc' = "ret"
              /\ UNCHANGED <<allAnswers, qi, failedSlots, failures>>
         ELSE \/ /\ allAnswers' = [allAnswers EXCEPT ![batchStart + qi + 1] =
                                       GetAnswer(SingleAnswer(batchQuestions[qi + 1]))]
                 /\ qi' = qi + 1
                 /\ rpc' = "degraded"
                 /\ UNCHANGED <<ret, failedSlots, failures>>
              \/ /\ failures < MaxFailures
                 /\ failures' = failures + 1
                 /\ failedSlots' = failedSlots \cup {batchStart + qi}
                 /\ qi' = qi + 1
                 /\ rpc' = "degraded"
                 /\ UNCHANGED <<ret, allAnswers>>
    /\ UNCHANGED <<questions, batchStart, ctxCancelled, prompts, cancelSeen>>

\* No request is left to send or in flight.
WorkFinished ==
    \/ rpc = "loop" /\ batchStart >= Len(questions)
    \/ /\ rpc = "degraded"
       /\ qi >= Len(batchQuestions)
       /\ NextBatchStart(batchStart) >= Len(questions)

\* The caller's token is cancelled (s.cancelFunc(), server.go 401-403).
cancelContext ==
    /\ rpc # "off"
    /\ ~ctxCancelled
    /\ ctxCancelled' = TRUE
    /\ cancelSeen' = IF rpc = "call" THEN "before"
                     ELSE IF rpc = "ret" THEN "after"
                     ELSE IF WorkFinished THEN "finished"
                     ELSE "working"
    /\ UNCHANGED <<questions, allAnswers, batchStart, qi, rpc, ret, prompts,
                   singles, failedSlots, failures>>

\* The questions 0 .. n-1
Ids(n) == [i \in 1..n |-> i - 1]

ResolverStart ==
    /\ questions \in {Ids(n) : n \in 0..MaxQuestions}
    /\ allAnswers = <<>>
    /\ batchStart = 0
    /\ qi = 0
    /\ rpc = "call"
    /\ ctxCancelled = FALSE
    /\ ret = NoReturn
    /\ prompts = <<>>
    /\ singles = <<>>
    /\ failedSlots = {}
    /\ failures = 0
    /\ cancelSeen = "no"

\* The questions with 0-based indices lo .. hi-1, in order
Range(lo, hi) == [i \in 1..(hi - lo) |-> lo + i - 1]
Min(a, b) == IF a < b THEN a ELSE b

\* C3: getBatchAnswers returns as many answers as there are questions (none
\* for the empty list), whatever requests failed and whether or not it was
\* cancelled; the slot of a question whose request failed holds the empty
\* string.
C3_OneAnswerPerQuestion ==
    rpc = "ret" =>
        /\ Len(ret.list) = Len(questions)
        /\ \A k \in failedSlots : ret.list[k + 1] = <<>>

C3_Witness ==
    /\ rpc = "ret"
    /\ ret.err = "nil"
    /\ Len(questions) > 10
    /\ failedSlots # {}
    /\ \E k \in 1..Len(ret.list) : ret.list[k] # <<>>

\* C4: the chunks are sent in index order, chunk N holding exactly the
\* questions 10(N-1) .. min(10N, n)-1; an answer parsed from chunk N's reply
\* for its tag j is stored in slot 10(N-1)+j-1 and nowhere else; a call that
\* returns without cancellation has sent ceil(n/10) chunks, which for 25
\* questions are three chunks of 10, 10 and 5 questions.
C4_ChunkPartition ==
    LET n == Len(questions) IN
    /\ \A N \in 1..Len(prompts) :
           /\ 10 * (N - 1) < n
           /\ prompts[N].qs = Range(10 * (N - 1), Min(10 * N, n))
           /\ prompts[N].reply = "all" =>
                  \A j \in 1..Len(prompts[N].qs) :
                      allAnswers[10 * (N - 1) + j] = ChunkAnswer(N, j)
    /\ \A k \in 1..Len(allAnswers) :
           allAnswers[k] \in {<<>>, SingleAnswer(k - 1),
                              ChunkAnswer(((k - 1) \div 10) + 1, ((k - 1) % 10) + 1)}
    /\ (rpc = "ret" /\ ret.err = "nil") => Len(prompts) = (n + 9) \div 10
    /\ (rpc = "ret" /\ ret.err = "nil" /\ n = 25) =>
           <<Len(prompts[1].qs), Len(prompts[2].qs), Len(prompts[3].qs)>> = <<10, 10, 5>>

C4_Witness ==
    /\ rpc = "ret"
    /\ ret.err = "nil"
    /\ ~ctxCancelled
    /\ Len(questions) = 25
    /\ Len(prompts) = 3
    /\ \A N \in 1..3 : prompts[N].reply = "all"
    /\ ret.list[25] = ChunkAnswer(3, 5)

\* C5 as claimed: whenever ctx is cancelled while getBatchAnswers is running,
\* it returns the cancellation indication with the full-length list.
C5_CancelAlwaysReported ==
    (rpc = "ret" /\ cancelSeen \in {"working", "finished"}) =>
        /\ ret.err = "ctx"
        /\ Len(ret.list) = Len(questions)

\* C5, amended: when ctx is cancelled while a chunk or per-question request
\* is still to be sent or in flight, getBatchAnswers returns the cancellation
\* indication with the full-length list of the slots filled so far; it
\* returns that indication only when ctx is cancelled; and after the return
\* neither the list nor the result changes.
C5_CancelReportedWhileWorking ==
    /\ [](rpc = "ret" =>
            /\ cancelSeen = "working" => ret.err = "ctx"
            /\ ret.err = "ctx" =>
                  /\ ctxCancelled
                  /\ ret.list = allAnswers
                  /\ Len(ret.list) = Len(questions))
    /\ [][rpc = "ret" => (allAnswers' = allAnswers /\ ret' = ret)]_vars

C5_Witness ==
    /\ rpc = "ret"
    /\ cancelSeen = "working"
    /\ ret.err = "ctx"
    /\ Len(ret.list) = 25
    /\ ret.list[1] # <<>>
    /\ ret.list[25] = <<>>

\* The questions of the first N chunks whose reply is one of these kinds,
\* in index order
RECURSIVE QuestionsOfChunks(_, _)
QuestionsOfChunks(N, kinds) ==
    IF N = 0 THEN <<>>
    ELSE QuestionsOfChunks(N - 1, kinds) \o
         (IF prompts[N].reply \in kinds THEN prompts[N].qs ELSE <<>>)

\* C20: in a call that is never cancelled, every chunk that fails (its
\* request fails, or no answer can be parsed from its reply) is followed by
\* one request per question of the chunk in index order; a per-question
\* request that fails leaves only its own slot empty, and every later chunk
\* is still sent.
C20_FailedChunkDegrades ==
    (rpc = "ret" /\ ~ctxCancelled) =>
        /\ singles = QuestionsOfChunks(Len(prompts), {"failed", "untagged"})
        /\ \A k \in 1..Len(singles) :
               allAnswers[singles[k] + 1] =
                   (IF singles[k] \in failedSlots THEN <<>> ELSE SingleAnswer(singles[k]))
        /\ Len(prompts) = (Len(questions) + 9) \div 10


\* C26: getBatchAnswers looks at the token immediately before each chunk
\* request and before each degraded per-question request: a request is only
\* issued from a check that found the token live, and once a check finds it
\* cancelled the call returns ctx.Err() with no further request and no later
\* chunk started.
C26_CheckedBeforeEachRequest ==
    [][/\ (rpc = "loop" /\ batchStart < Len(questions) /\ ctxCancelled) =>
              /\ rpc' = "ret" /\ ret'.err = "ctx"
              /\ prompts' = prompts /\ singles' = singles /\ batchStart' = batchStart
       /\ (rpc = "degraded" /\ qi < Len(batchQuestions) /\ ctxCancelled) =>
              /\ rpc' = "ret" /\ ret'.err = "ctx"
              /\ prompts' = prompts /\ singles' = singles /\ batchStart' = batchStart
       /\ prompts' # prompts => rpc = "chunk"
       /\ singles' # singles => rpc = "single"
       /\ (rpc' = "chunk" /\ rpc # "chunk") => (rpc = "loop" /\ ~ctxCancelled)
       /\ (rpc' = "single" /\ rpc # "single") => (rpc = "degraded" /\ ~ctxCancelled)
       /\ rpc = "ret" => (rpc' = "ret" /\ prompts' = prompts /\ singles' = singles)
      ]_vars

\* The first chunk was answered, the token was cancelled, and the check at the
\* head of the second chunk ended the call: one request, the rest not asked.
C26_Witness ==
    /\ rpc = "ret"
    /\ ret.err = "ctx"
    /\ cancelSeen = "working"
    /\ Len(prompts) = 1
    /\ prompts[1].reply \notin {"cancelled", "failed"}
    /\ singles = <<>>
    /\ batchStart = batchSize
    /\ Len(questions) > batchSize

(***************************************************************************)
(* One run: RunMultipleQuizzes, ProcessQuizzesWithContext and              *)
(* processQuizWithProgress (browser.go), reported by the worker of         *)
(* handleStart (server.go 322-358).                                        *)
(***************************************************************************)
\* The markers the code looks for in a page's markup.  A page's markup is
\* known by the set of markers that occur in it.
EXHAUSTED == "EXHAUSTED"        \* "attempts used up"
UNSUBMITTED == "UNSUBMITTED"    \* "paper not handed in"
CONTACT == "CONTACT"            \* "please contact the teacher"
RETAKE == "RETAKE"              \* "take the test again"
PICNOTHING == "pic_nothing"
BLANKNESTED == "class=blank></div></div></div>"
BLANKDIV == "<div class=blank></div>"
MDISABLE == "m-disable"

Markers == {EXHAUSTED, UNSUBMITTED, CONTACT, RETAKE, PICNOTHING, BLANKNESTED,
            BLANKDIV, MDISABLE}
Pages == {m \in SUBSET Markers : Cardinality(m) <= MaxMarkers}
Stages == {"extractor", "resolver", "injector", "submit"}

\* strings.Contains(pageHTML, marker)
HasMarker(html, marker) == marker \in html

\* browser.go 501-505
UnanswerablePageNoPlaceholder(html) ==
    \/ HasMarker(html, EXHAUSTED)
    \/ HasMarker(html, UNSUBMITTED)
    \/ HasMarker(html, CONTACT)
    \/ HasMarker(html, RETAKE)
UnanswerablePage(html) ==
    \/ HasMarker(html, EXHAUSTED)
    \/ HasMarker(html, UNSUBMITTED)
    \/ HasMarker(html, CONTACT)
    \/ HasMarker(html, RETAKE)
    \/ HasMarker(html, PICNOTHING)

\* browser.go 513-514
BlankPage(html) == HasMarker(html, BLANKNESTED) \/ HasMarker(html, BLANKDIV)

\* browser.go 535-540
UnanswerableAfterTimeoutNoDisable(html) == UnanswerablePage(html)

UnanswerableAfterTimeout(html) == UnanswerablePage(html) \/ HasMarker(html, MDISABLE)

\* Config.AddCompletedURL (models.go 495-505): appended unless already there
AddCompletedURL(urls, url) ==
    IF \E i \in 1..Len(urls) : urls[i] = url THEN urls ELSE Append(urls, url)

IsCompleted(urls, url) == \E i \in 1..Len(urls) : urls[i] = url

Unread == [done |-> FALSE, html |-> {}]

RunIdle ==
    /\ quizzes = <<>>
    /\ qpos = 0
    /\ ppc = "off"
    /\ tokenCancelled = FALSE
    /\ chromeUp = FALSE
    /\ page = {}
    /\ conListVisible = FALSE
    /\ pageHTML = {}
    /\ extracted = 0
    /\ calledCancelled = FALSE
    /\ quizErr = "none"
    /\ procErr = "none"
    /\ completedURLs = <<>>
    /\ events = <<>>
    /\ markupRead = <<>>
    /\ invoked = {}
    /\ outcome = <<>>
    /\ cancelPoint = "none"

\* A run accepted by handleStart with a selection of quiz URLs
RunStart ==
    /\ \E n \in 0..MaxQuizzes :
           /\ quizzes = [i \in 1..n |-> i]
           /\ markupRead = [i \in 1..n |-> Unread]
           /\ outcome = [i \in 1..n |-> "none"]
    /\ qpos = 0
    /\ ppc = "launch"
    /\ tokenCancelled = FALSE
    /\ chromeUp = FALSE
    /\ page = {}
    /\ conListVisible = FALSE
    /\ pageHTML = {}
    /\ extracted = 0
    /\ calledCancelled = FALSE
    /\ quizErr = "none"
    /\ procErr = "none"
    /\ completedURLs = <<>>
    /\ events = <<>>
    /\ invoked = {}
    /\ cancelPoint = "none"

quizLocals == <<page, conListVisible, pageHTML, extracted, calledCancelled>>
runHistory == <<markupRead, invoked, outcome>>

\* processQuizWithProgress returns err for the quiz at qpos
QuizReturns(err, how) ==
    /\ quizErr' = err
    /\ outcome' = [outcome EXCEPT ![qpos] = how]
    /\ ppc' = "quizReturned"

\* browser.go 1432-1446: launch the browser and log in
RunMultipleQuizzes ==
    /\ ppc = "launch"
    /\ \/ /\ chromeUp' = TRUE
          /\ ppc' = "process"
          /\ UNCHANGED procErr
       \/ /\ procErr' = "err"
          /\ ppc' = "returned"
          /\ UNCHANGED chromeUp
    /\ UNCHANGED <<quizzes, qpos, tokenCancelled, quizLocals, quizErr, completedURLs,
                   events, runHistory, cancelPoint>>

\* browser.go 1462-1470
ProcessQuizzesWithContext ==
    /\ ppc = "process"
    /\ IF Len(quizzes) = 0
         THEN procErr' = "nil" /\ ppc' = "returned" /\ UNCHANGED qpos
         ELSE qpos' = 1 /\ ppc' = "loopHead" /\ UNCHANGED procErr
    /\ UNCHANGED <<quizzes, tokenCancelled, chromeUp, quizLocals, quizErr,
                   completedURLs, events, runHistory, cancelPoint>>

\* browser.go 1472-1479 and, when the list is exhausted, 1499-1501
quizLoopHead ==
    /\ ppc = "loopHead"
    /\ IF qpos > Len(quizzes)
         THEN /\ events' = Append(events, <<"complete", "pipeline", Len(quizzes)>>)
              /\ procErr' = "nil"
              /\ ppc' = "returned"
         ELSE IF tokenCancelled
         THEN /\ procErr' = "ctx"
              /\ ppc' = "returned"
              /\ UNCHANGED events
         ELSE /\ events' = Append(events, <<"progress", quizzes[qpos]>>)
              /\ ppc' = "entry"
              /\ UNCHANGED procErr
    /\ UNCHANGED <<quizzes, qpos, tokenCancelled, chromeUp, quizLocals, quizErr,
                   completedURLs, runHistory, cancelPoint>>

\* browser.go 476-481
processQuizWithProgress ==
    /\ ppc = "entry"
    /\ IF tokenCancelled
         THEN QuizReturns("ctx", "cancelled")
         ELSE ppc' = "navigate" /\ UNCHANGED <<quizErr, outcome>>
    /\ UNCHANGED <<quizzes, qpos, tokenCancelled, chromeUp, quizLocals, procErr,
                   completedURLs, events, markupRead, invoked, cancelPoint>>

\* browser.go 487-493: chromedp.Navigate; the page that loads is the
\* environment's choice
navigate ==
    /\ ppc = "navigate"
    /\ \/ /\ QuizReturns("err", "failed")
          /\ UNCHANGED <<page, conListVisible>>
       \/ /\ chromeUp
          /\ \E m \in Pages, v \in BOOLEAN : page' = m /\ conListVisible' = v
          /\ ppc' = "sentinel"
          /\ UNCHANGED <<quizErr, outcome>>
    /\ UNCHANGED <<quizzes, qpos, tokenCancelled, chromeUp, pageHTML, extracted,
                   calledCancelled, procErr, completedURLs, events, markupRead,
                   invoked, cancelPoint>>

\* browser.go 495-520: read the markup (an OuterHTML that fails leaves
\* pageHTML empty) and look for the markers
checkSentinels ==
    /\ ppc = "sentinel"
    /\ LET html == IF chromeUp THEN page ELSE {} IN
       /\ pageHTML' = html
       /\ markupRead' = [markupRead EXCEPT ![qpos] = [done |-> TRUE, html |-> html]]
       /\ IF UnanswerablePage(html) \/ BlankPage(html)
            THEN /\ completedURLs' = AddCompletedURL(completedURLs, quizzes[qpos])
                 /\ quizErr' = "nil"
                 /\ outcome' = [outcome EXCEPT ![qpos] = "skipped"]
                 /\ ppc' = "quizReturned"
            ELSE /\ ppc' = "wait"
                 /\ UNCHANGED <<completedURLs, quizErr, outcome>>
    /\ UNCHANGED <<quizzes, qpos, tokenCancelled, chromeUp, page, conListVisible,
                   extracted, calledCancelled, procErr, events, invoked, cancelPoint>>

\* browser.go 522-542: WaitVisible(div.con-list); when it fails the markup is
\* read again (a failed read leaves pageHTML as it was) and re-checked
waitConList ==
    /\ ppc = "wait"
    /\ IF chromeUp /\ conListVisible
         THEN /\ ppc' = "extract"
              /\ UNCHANGED <<pageHTML, completedURLs, quizErr, outcome>>
         ELSE LET html == IF chromeUp THEN page ELSE pageHTML IN
              /\ pageHTML' = html
              /\ IF UnanswerableAfterTimeout(html)
                   THEN /\ completedURLs' = AddCompletedURL(completedURLs, quizzes[qpos])
                        /\ QuizReturns("nil", "skipped")
                   ELSE /\ QuizReturns("err", "failed")
                        /\ UNCHANGED completedURLs
    /\ UNCHANGED <<quizzes, qpos, tokenCancelled, chromeUp, page, conListVisible,
                   extracted, calledCancelled, procErr, events, markupRead, invoked,
                   cancelPoint>>

\* browser.go 544-560: read the markup and parse the questions
extractQuestions ==
    /\ ppc = "extract"
    /\ IF ~chromeUp
         THEN /\ QuizReturns("err", "failed")
              /\ UNCHANGED <<extracted, invoked>>
         ELSE /\ invoked' = invoked \cup {<<quizzes[qpos], "extractor">>}
              /\ \E n \in 0..MaxExtracted :
                    /\ extracted' = n
                    /\ IF n = 0
                         THEN QuizReturns("nil", "empty")
                         ELSE ppc' = "resolve" /\ UNCHANGED <<quizErr, outcome>>
    /\ UNCHANGED <<quizzes, qpos, tokenCancelled, chromeUp, page, conListVisible,
                   pageHTML, calledCancelled, procErr, completedURLs, events,
                   markupRead, cancelPoint>>

\* browser.go 566: the call of getBatchAnswers
resolveAnswers ==
    /\ ppc = "resolve"
    /\ invoked' = invoked \cup {<<quizzes[qpos], "resolver">>}
    /\ calledCancelled' = tokenCancelled
    /\ ppc' = "resolving"
    /\ UNCHANGED <<quizzes, qpos, tokenCancelled, chromeUp, page, conListVisible,
                   pageHTML, extracted, quizErr, procErr, completedURLs, events,
                   markupRead, outcome, cancelPoint>>

\* What getBatchAnswers returns for a non-empty list (browser.go 838-905):
\* ctx.Err() when ctx was cancelled at the call, nil when it never was, and
\* either when it was cancelled during the call.
ResolverErrs(atCall, now) ==
    IF atCall THEN {"ctx"} ELSE IF now THEN {"ctx", "nil"} ELSE {"nil"}

\* browser.go 566-575
answersReturned ==
    /\ ppc = "resolving"
    /\ \E err \in ResolverErrs(calledCancelled, tokenCancelled) :
          IF err # "nil"
            THEN QuizReturns(IF tokenCancelled THEN "ctx" ELSE "err", "cancelled")
            ELSE ppc' = "resolved" /\ UNCHANGED <<quizErr, outcome>>
    /\ UNCHANGED <<quizzes, qpos, tokenCancelled, chromeUp, quizLocals, procErr,
                   completedURLs, events, markupRead, invoked, cancelPoint>>

\* browser.go 577-583
checkAfterResolve ==
    /\ ppc = "resolved"
    /\ IF tokenCancelled
         THEN QuizReturns("ctx", "cancelled")
         ELSE ppc' = "inject" /\ UNCHANGED <<quizErr, outcome>>
    /\ UNCHANGED <<quizzes, qpos, tokenCancelled, chromeUp, quizLocals, procErr,
                   completedURLs, events, markupRead, invoked, cancelPoint>>

\* browser.go 588-591: batchSubmitAnswers, whose error is only logged
fillAnswers ==
    /\ ppc = "inject"
    /\ invoked' = invoked \cup {<<quizzes[qpos], "injector">>}
    /\ ppc' = "submit"
    /\ UNCHANGED <<quizzes, qpos, tokenCancelled, chromeUp, quizLocals, quizErr,
                   procErr, completedURLs, events, markupRead, outcome, cancelPoint>>

\* browser.go 1256-1375: the click sequence, whose errors are only logged,
\* then the ledger and the quiz_completed event
submitQuiz ==
    /\ ppc = "submit"
    /\ invoked' = invoked \cup {<<quizzes[qpos], "submit">>}
    /\ completedURLs' = AddCompletedURL(completedURLs, quizzes[qpos])
    /\ events' = Append(events, <<"quiz_completed", quizzes[qpos]>>)
    /\ QuizReturns("nil", "submitted")
    /\ UNCHANGED <<quizzes, qpos, tokenCancelled, chromeUp, quizLocals, procErr,
                   markupRead, cancelPoint>>

\* browser.go 1487-1492: an error of a quiz ends the run only when ctx is
\* cancelled
AbortsRunOnAnyError(err, cancelled) == err # "nil"
AbortsRun(err, cancelled) == err # "nil" /\ cancelled

\* browser.go 1487-1496: back in the loop of ProcessQuizzesWithContext; an
\* error that does not end the run is sent as a log event
quizReturned ==
    /\ ppc = "quizReturned"
    /\ IF AbortsRun(quizErr, tokenCancelled)
         THEN /\ procErr' = "ctx"
              /\ ppc' = "returned"
              /\ UNCHANGED <<qpos, events>>
         ELSE /\ events' = IF quizErr # "nil"
                             THEN Append(events, <<"log", quizzes[qpos]>>)
                             ELSE events
              /\ qpos' = qpos + 1
              /\ ppc' = "loopHead"
              /\ UNCHANGED procErr
    /\ UNCHANGED <<quizzes, tokenCancelled, chromeUp, quizLocals, quizErr,
                   completedURLs, runHistory, cancelPoint>>

\* browser.go 1437 (deferred b.Stop) and server.go 334-358: the worker's
\* terminal event
workerReports ==
    /\ ppc = "returned"
    /\ chromeUp' = FALSE
    /\ events' = Append(events,
                        <<TerminalOf(IF procErr = "nil" THEN "nil" ELSE "err",
                                     tokenCancelled), "run">>)
    /\ ppc' = "done"
    /\ UNCHANGED <<quizzes, qpos, tokenCancelled, quizLocals, quizErr, procErr,
                   completedURLs, runHistory, cancelPoint>>

\* server.go 401-403: a Stop request cancels the run's ctx
cancelRun ==
    /\ ppc \notin {"off", "done"}
    /\ ~tokenCancelled
    /\ tokenCancelled' = TRUE
    /\ cancelPoint' = ppc
    /\ UNCHANGED <<quizzes, qpos, ppc, chromeUp, quizLocals, quizErr, procErr,
                   completedURLs, events, runHistory>>

\* server.go 408-410: the Stop request then tears the browser down
stopExecutor ==
    /\ tokenCancelled
    /\ chromeUp
    /\ chromeUp' = FALSE
    /\ UNCHANGED <<quizzes, qpos, ppc, tokenCancelled, quizLocals, quizErr, procErr,
                   completedURLs, events, runHistory, cancelPoint>>

\* The run's terminal event, "none" until it is sent
TerminalEvent == IF ppc = "done" THEN events[Len(events)][1] ELSE "none"

\* C6: a run whose ctx is cancelled at any point before its terminal event
\* is sent ends with the terminal event cancelled, never complete or error.
C6_CancelledRunEndsCancelled ==
    (ppc = "done" /\ cancelPoint # "none") => TerminalEvent = "cancelled"

\* C7 as claimed: a quiz whose markup, read right after navigation, holds
\* any sentinel marker (the disabled-control marker included) is skipped: its
\* URL is in the ledger, the call returned nil, and no stage ran for it.
C7_AnySentinelSkips ==
    \A u \in 1..Len(quizzes) :
        (markupRead[u].done /\ markupRead[u].html \cap Markers # {}) =>
            /\ outcome[u] \in {"none", "skipped"}
            /\ outcome[u] = "skipped" => IsCompleted(completedURLs, u)
            /\ \A st \in Stages : <<u, st>> \notin invoked

\* C7, amended: a quiz whose markup, read right after navigation, holds one of
\* the five phrases or two blank-page markers checked at that point is
\* skipped: its URL is in the ledger, the call returned nil, and neither the
\* extractor, the resolver, the injector nor the submit sequence ran for it.
C7_CheckedSentinelSkips ==
    \A u \in 1..Len(quizzes) :
        (markupRead[u].done /\
         markupRead[u].html \cap {EXHAUSTED, UNSUBMITTED, CONTACT, RETAKE, PICNOTHING,
                                  BLANKNESTED, BLANKDIV} # {}) =>
            /\ outcome[u] = "skipped"
            /\ (ppc = "quizReturned" /\ qpos = u) => quizErr = "nil"
            /\ IsCompleted(completedURLs, u)
            /\ \A st \in Stages : <<u, st>> \notin invoked

C7_Witness ==
    /\ ppc = "quizReturned"
    /\ markupRead[qpos].done
    /\ PICNOTHING \in markupRead[qpos].html
    /\ outcome[qpos] = "skipped"
    /\ quizErr = "nil"
    /\ IsCompleted(completedURLs, quizzes[qpos])
    /\ \A st \in Stages : <<quizzes[qpos], st>> \notin invoked

\* The quizzes whose processing was announced, in the order of the events
Announced ==
    LET p == SelectSeq(events, LAMBDA ev : ev[1] = "progress")
    IN  [i \in 1..Len(p) |-> p[i][2]]

\* The failure of the quiz at url was sent as a log event
FailureLogged(url) ==
    \E i \in 1..Len(events) : events[i][1] = "log" /\ events[i][2] = url

\* C15: a quiz that fails (a navigation error, a container-wait timeout)
\* while the token is not cancelled does not end the run: the failure is sent
\* as a log event, every later quiz of the list is processed in list order,
\* and the run that is never cancelled ends with the terminal event complete.
C15_FailedQuizDoesNotAbort ==
    \A k \in 1..Len(quizzes) :
        outcome[k] = "failed" =>
            /\ qpos > k => FailureLogged(quizzes[k])
            /\ (qpos = k /\ ppc = "returned") => tokenCancelled
            /\ (ppc = "done" /\ ~tokenCancelled) =>
                  /\ TerminalEvent = "complete"
                  /\ Announced = quizzes
                  /\ \A j \in (k + 1)..Len(quizzes) : outcome[j] # "none"

C15_Witness ==
    /\ ppc = "done"
    /\ ~tokenCancelled
    /\ Len(quizzes) = 2
    /\ outcome[1] = "failed"
    /\ <<1, "extractor">> \notin invoked
    /\ FailureLogged(quizzes[1])
    /\ outcome[2] = "submitted"
    /\ TerminalEvent = "complete"

\* The complete events of the pipeline (browser.go 1500), with their counts
PipelineCompletes ==
    SelectSeq(events, LAMBDA ev : ev[1] = "complete" /\ ev[2] = "pipeline")

\* C21: a run whose list is exhausted without cancellation has sent one
\* complete event carrying the number of its quizzes and returned no error;
\* a run over a list of quizzes that was cancelled before
\* ProcessQuizzesWithContext returned, or ended by an error, has sent no
\* complete event, from the pipeline or as its terminal
\* event.
C21_CompleteOnlyWhenExhausted ==
    ppc = "done" =>
        /\ (cancelPoint = "none" /\ procErr = "nil" /\ Len(quizzes) > 0) =>
               /\ PipelineCompletes = <<<<"complete", "pipeline", Len(quizzes)>>>>
               /\ TerminalEvent = "complete"
        /\ (Len(quizzes) > 0 /\ (cancelPoint \notin {"none", "returned"} \/ procErr # "nil")) =>
               /\ PipelineCompletes = <<>>
               /\ TerminalEvent # "complete"

\* C27 as claimed: one closed set of markers (the disabled-control and the
\* blank-content markers included) is applied to the markup read right after
\* navigation and again after a container-wait timeout: a quiz whose markup
\* holds a marker of the set is skipped and recorded, and a quiz that failed at
\* the wait had no marker and left the ledger alone.
C27_SameSetAtBothChecks ==
    \A u \in 1..Len(quizzes) :
        (markupRead[u].done /\ outcome[u] # "none") =>
            /\ markupRead[u].html \cap Markers # {} =>
                   outcome[u] = "skipped" /\ IsCompleted(completedURLs, quizzes[u])
            /\ outcome[u] = "failed" => ~IsCompleted(completedURLs, quizzes[u])

\* C27, amended: the check right after navigation applies the five phrases and
\* the two blank-content markers, the re-check after a container-wait timeout
\* applies the five phrases and the disabled-control marker, once, to the
\* markup read again: a match skips the quiz with its URL recorded and nil
\* returned, a non-match of the first goes on to the wait and a non-match of
\* the second fails the quiz with the ledger unchanged.
C27_SentinelSetsOfTheTwoChecks ==
    [][/\ (ppc = "sentinel" /\ ppc' # "sentinel") =>
              IF pageHTML' \cap {EXHAUSTED, UNSUBMITTED, CONTACT, RETAKE, PICNOTHING,
                                 BLANKNESTED, BLANKDIV} # {}
                THEN /\ ppc' = "quizReturned"
                     /\ outcome'[qpos] = "skipped"
                     /\ quizErr' = "nil"
                     /\ IsCompleted(completedURLs', quizzes[qpos])
                ELSE /\ ppc' = "wait"
                     /\ completedURLs' = completedURLs
       /\ (ppc = "wait" /\ ppc' \notin {"wait", "extract"}) =>
              /\ ppc' = "quizReturned"
              /\ IF pageHTML' \cap {EXHAUSTED, UNSUBMITTED, CONTACT, RETAKE, PICNOTHING,
                                    MDISABLE} # {}
                   THEN /\ outcome'[qpos] = "skipped"
                        /\ quizErr' = "nil"
                        /\ IsCompleted(completedURLs', quizzes[qpos])
                   ELSE /\ outcome'[qpos] = "failed"
                        /\ quizErr' = "err"
                        /\ completedURLs' = completedURLs
      ]_vars

\* The container never showed and the markup read again holds the
\* disabled-control marker, which the first check had let through: skipped.
C27_Witness ==
    /\ ppc = "quizReturned"
    /\ markupRead[qpos].done
    /\ markupRead[qpos].html = {MDISABLE}
    /\ pageHTML = {MDISABLE}
    /\ ~conListVisible
    /\ outcome[qpos] = "skipped"
    /\ quizErr = "nil"
    /\ IsCompleted(completedURLs, quizzes[qpos])

\* The kinds of event that end a run for a listener
TerminalKinds == {"complete", "cancelled", "error"}

\* C33: a run produces exactly one event of a terminal kind (complete,
\* cancelled or error) on the stream, and it is the last event of the run: no
\* progress, log or quiz_completed event follows it.
C33_ExactlyOneTerminalEvent ==
    LET ends == SelectSeq(events, LAMBDA ev : ev[1] \in TerminalKinds)
    IN  /\ Len(ends) <= 1
        /\ ppc = "done" => Len(ends) = 1
        /\ Len(ends) = 1 => events[Len(events)][1] \in TerminalKinds

(***************************************************************************)
(* From the model's reply to the page: getBatchAnswersForChunk and the     *)
(* degraded requests (browser.go 856-892), batchSubmitAnswers and its      *)
(* script jsBatchFill (browser.go 1029-1253).                              *)
(***************************************************************************)
QuestionTypes == {"Single", "Multiple", "Fill"}

\* What the model answers to a question of each type
PayloadsFor(type) ==
    CASE type = "Single" -> {<<"A">>, <<"C">>, <<"A", ",", "B">>, <<"A", FWCOMMA, "B">>,
                             <<",", "B">>}
      [] type = "Multiple" -> {<<"A", ",", "C">>}
      [] type = "Fill" -> {<<H1, H2, H3, H4>>}

ReplyStyles == {"tagged", "bare", "ordinal", "degraded"}

\* The line of a chunk reply that answers question j
ReplyLine(style, j, payload) ==
    (CASE style = "tagged" -> <<LB, DA, AN>> \o Itoa(j) \o <<RB, ":", SP>>
       [] style = "bare" -> <<DA, AN>> \o Itoa(j) \o <<":", SP>>
       [] style = "ordinal" -> Itoa(j) \o <<".", SP>>)
    \o payload \o <<NL>>

RECURSIVE BuildReply(_, _, _)
BuildReply(style, texts, j) ==
    IF j > Len(texts) THEN <<>>
    ELSE ReplyLine(style, j, texts[j]) \o BuildReply(style, texts, j + 1)

InjectIdle ==
    /\ pageQuestions = <<>>
    /\ modelText = <<>>
    /\ replyStyle = "none"
    /\ resolved = <<>>
    /\ answerList = <<>>
    /\ apos = 0
    /\ writes = {}
    /\ ipc = "off"

\* A page of questions, and what the model will answer to each
InjectStart ==
    /\ \E n \in 1..MaxPageQuestions :
          /\ pageQuestions \in [1..n -> QuestionTypes]
          /\ modelText \in [1..n -> UNION {PayloadsFor(t) : t \in QuestionTypes}]
          /\ \A i \in 1..n : modelText[i] \in PayloadsFor(pageQuestions[i])
    /\ replyStyle \in ReplyStyles
    /\ resolved = <<>>
    /\ answerList = <<>>
    /\ apos = 0
    /\ writes = {}
    /\ ipc = "resolve"

\* browser.go 856, 885-892 with 908-967: one chunk request that succeeds
resolveChunk ==
    /\ ipc = "resolve"
    /\ replyStyle # "degraded"
    /\ resolved' = CopyBatch(MakeAnswers(Len(pageQuestions)), 0,
                             parseBatchAnswers(GetAnswer(BuildReply(replyStyle, modelText, 1)),
                                               Len(pageQuestions)))
    /\ ipc' = "submit"
    /\ UNCHANGED <<pageQuestions, modelText, replyStyle, answerList, apos, writes>>

\* browser.go 864-880: the chunk request failed; each question is asked on
\* its own and its slot gets what GetAnswer returns
resolveDegraded ==
    /\ ipc = "resolve"
    /\ replyStyle = "degraded"
    /\ resolved' = [i \in 1..Len(pageQuestions) |-> GetAnswer(modelText[i])]
    /\ ipc' = "submit"
    /\ UNCHANGED <<pageQuestions, modelText, replyStyle, answerList, apos, writes>>

\* browser.go 1047-1053
TypeStr(type) ==
    CASE type = "Multiple" -> "multi"
      [] type = "Fill" -> "fill"
      [] OTHER -> "single"

\* browser.go 1059-1064: strings.TrimSpace(strings.Split(answer, ",")[0])
CorrectSingle(type, answer) ==
    IF type = "Single" /\ Contains(answer, ",")
      THEN TrimSpace(FirstPart(answer, ","))
      ELSE answer

\* browser.go 1039-1076: the loop that builds answerList
RECURSIVE BuildAnswerList(_, _, _)
BuildAnswerList(qs, as, i) ==
    IF i > Len(qs) THEN <<>>
    ELSE LET answer == IF i <= Len(as) THEN as[i] ELSE <<>>
         IN  (IF answer = <<>> THEN <<>>
              ELSE <<[index |-> i - 1, type |-> TypeStr(qs[i]),
                      answer |-> CorrectSingle(qs[i], answer)]>>)
             \o BuildAnswerList(qs, as, i + 1)

\* browser.go 1029-1084
batchSubmitAnswers ==
    /\ ipc = "submit"
    /\ answerList' = BuildAnswerList(pageQuestions, resolved, 1)
    /\ apos' = 1
    /\ ipc' = "fill"
    /\ UNCHANGED <<pageQuestions, modelText, replyStyle, resolved, writes>>

\* The page.  Every question has one .t-subject.t-item; a Fill question has
\* one .tp-blank input and a choice question one .t-option block with the
\* options A to D.  document.querySelectorAll returns in document order:
\* subjects[k] is question k, fillInputs[k] the input of the k-th Fill
\* question (both 0-based; browser.go 1096-1097).
RECURSIVE FillInputs(_, _)
FillInputs(qs, i) ==
    IF i > Len(qs) THEN <<>>
    ELSE (IF qs[i] = "Fill" THEN <<i - 1>> ELSE <<>>) \o FillInputs(qs, i + 1)

OptionLetters == {"A", "B", "C", "D"}

\* String.prototype.toUpperCase, on one character
ToUpper(c) == CASE c = "a" -> "A" [] c = "b" -> "B" [] c = "x" -> "X" [] OTHER -> c

\* answer.replace(/\s/g, '').split(',')  (browser.go 1124)
RECURSIVE SplitComma(_)
SplitComma(s) ==
    LET k == RunLen(s, 1, {","}, TRUE)
    IN  IF k = Len(s) THEN <<s>>
        ELSE <<Sub(s, 1, k)>> \o SplitComma(Sub(s, k + 2, Len(s)))

AnswerLetters(answer) ==
    LET parts == SplitComma(SelectSeq(answer, LAMBDA c : c \notin SpaceSet))
    IN  {[j \in 1..Len(parts[p]) |-> ToUpper(parts[p][j])] : p \in 1..Len(parts)}

\* browser.go 1099-1226: what the script does for one entry of answers
FillEffects(qs, item) ==
    IF item.type = "fill"
      THEN LET inputs == FillInputs(qs, 1)
           IN  IF item.index < Len(inputs)
                 THEN {[kind |-> "input", question |-> inputs[item.index + 1],
                        slot |-> item.index, value |-> item.answer]}
                 ELSE {}
      ELSE IF item.index < Len(qs) /\ qs[item.index + 1] # "Fill"
             THEN {[kind |-> "click", question |-> item.index, slot |-> item.index,
                    value |-> <<l>>] : l \in {x \in OptionLetters :
                                                 <<x>> \in AnswerLetters(item.answer)}}
             ELSE {}

\* browser.go 1099-1231: one turn of the script's loop
jsBatchFill ==
    /\ ipc = "fill"
    /\ IF apos > Len(answerList)
         THEN ipc' = "done" /\ UNCHANGED <<apos, writes>>
         ELSE /\ writes' = writes \cup FillEffects(pageQuestions, answerList[apos])
              /\ apos' = apos + 1
              /\ UNCHANGED ipc
    /\ UNCHANGED <<pageQuestions, modelText, replyStyle, resolved, answerList>>

\* The scenario: two Single, one Multiple and one Fill question, answered
\* A, C, A,C and the four-character fill answer.
ScenarioQuestions == <<"Single", "Single", "Multiple", "Fill">>
ScenarioText == <<<<"A">>, <<"C">>, <<"A", ",", "C">>, <<H1, H2, H3, H4>>>>

\* C8: the script writes the answer of slot i only into the control of
\* question i, and once it has run, every Fill answer handed to it is in the
\* input of its own question.
C8_WritesGoToOwnQuestion ==
    /\ \A w \in writes : w.question = w.slot
    /\ ipc = "done" =>
          \A k \in 1..Len(answerList) :
              answerList[k].type = "fill" =>
                  [kind |-> "input", question |-> answerList[k].index,
                   slot |-> answerList[k].index, value |-> answerList[k].answer] \in writes

\* C9 as claimed: for the scenario's four questions and the reply whose lines
\* are the bare tags "answer N" followed by ": " and the answer, the resolver
\* returns the four answers in order.
C9_BareTagsResolve ==
    (ipc \in {"submit", "fill", "done"} /\ pageQuestions = ScenarioQuestions
        /\ modelText = ScenarioText /\ replyStyle = "bare")
    => resolved = ScenarioText

\* C9, amended: for the scenario's four questions and the reply whose lines
\* are the bracketed tags (left bracket, "answer N", right bracket) followed
\* by ": " and the answer, the resolver returns exactly the four answers
\* A, C, A,C and the fill answer, in that order.
C9_BracketTagsResolve ==
    (ipc \in {"submit", "fill", "done"} /\ pageQuestions = ScenarioQuestions
        /\ modelText = ScenarioText /\ replyStyle = "tagged")
    => resolved = ScenarioText

C9_Witness ==
    /\ ipc = "submit"
    /\ pageQuestions = ScenarioQuestions
    /\ modelText = ScenarioText
    /\ replyStyle = "tagged"
    /\ resolved = <<<<"A">>, <<"C">>, <<"A", ",", "C">>, <<H1, H2, H3, H4>>>>

\* C10: a Single question whose resolved answer holds a separator, half-width
\* or full-width, from a chunk reply or from a degraded request, is handed to
\* the script with the first option letter only.
C10_SingleTruncated ==
    ipc \in {"fill", "done"} =>
        \A i \in 1..Len(pageQuestions) :
            (pageQuestions[i] = "Single" /\ i <= Len(resolved)
                /\ (Contains(resolved[i], ",") \/ Contains(resolved[i], FWCOMMA)))
            => \E k \in 1..Len(answerList) :
                   /\ answerList[k].index = i - 1
                   /\ answerList[k].answer = <<resolved[i][1]>>

\* C36: no entry of the list handed to the injection script has an empty
\* answer, whatever the question's type and the resolved answer, a Single
\* answer that begins with a separator included.
C36_NoEmptyAnswerInjected ==
    \A k \in 1..Len(answerList) : answerList[k].answer # <<>>

(***************************************************************************)
(* submitQuiz (browser.go 1256-1375): the countdown, the click sequence    *)
(* and the record of completion.                                           *)
(***************************************************************************)
\* The submit delays a configuration may hold
DelayValues == (0 - 2)..MaxDelay

\* Config.GetSubmitDelay: the configured submit delay in seconds
GetSubmitDelay(configured) == configured

SubEntry(what, a, b) == [kind |-> what, a |-> a, b |-> b]

SubmitIdle ==
    /\ subDelay = 0
    /\ subElapsed = 0
    /\ subPc = "off"
    /\ subTrace = <<>>
    /\ subChromeUp = FALSE
    /\ subRecorded = FALSE

\* submitQuiz is called for a quiz, under some configuration
SubmitStart ==
    /\ subDelay \in DelayValues
    /\ subElapsed = 0
    /\ subPc = "entry"
    /\ subTrace = <<>>
    /\ subChromeUp \in BOOLEAN
    /\ subRecorded = FALSE

\* browser.go 1258-1261
submitDelayCheck ==
    /\ subPc = "entry"
    /\ LET delay == GetSubmitDelay(subDelay) IN
       IF delay > 0
         THEN /\ subTrace' = Append(subTrace, SubEntry("log", 0, 0))
              /\ subElapsed' = 1
              /\ subPc' = "countdown"
         ELSE /\ subPc' = "clicks"
              /\ UNCHANGED <<subTrace, subElapsed>>
    /\ UNCHANGED <<subDelay, subChromeUp, subRecorded>>

\* browser.go 1262: the loop condition elapsed <= delay
CountdownGoesOnShort(elapsed, delay) == elapsed < delay
CountdownGoesOn(elapsed, delay) == elapsed <= delay

\* browser.go 1262-1270: one second of the countdown, or its end
submitCountdown ==
    /\ subPc = "countdown"
    /\ LET delay == GetSubmitDelay(subDelay) IN
       IF CountdownGoesOn(subElapsed, delay)
         THEN /\ subTrace' = subTrace
                    \o <<SubEntry("submit_countdown", subElapsed, delay)>>
                    \o (IF delay - subElapsed > 0 THEN <<SubEntry("log", 0, 0)>> ELSE <<>>)
              /\ subElapsed' = subElapsed + 1
              /\ UNCHANGED subPc
         ELSE /\ subTrace' = Append(subTrace, SubEntry("log", 0, 0))
              /\ subPc' = "clicks"
              /\ UNCHANGED subElapsed
    /\ UNCHANGED <<subDelay, subChromeUp, subRecorded>>

\* A click the script performs when the session is up and the control is there
ClickIf(found, name) ==
    IF subChromeUp /\ found THEN <<SubEntry("click", name, 0)>> ELSE <<>>

\* browser.go 1273-1304: the submit button, by class or by its text
clickSubmitButton ==
    /\ subPc = "clicks"
    /\ \E found \in BOOLEAN :
          subTrace' = subTrace \o <<SubEntry("log", 0, 0)>> \o ClickIf(found, 1)
    /\ subPc' = "confirm"
    /\ UNCHANGED <<subDelay, subElapsed, subChromeUp, subRecorded>>

\* browser.go 1306-1351: the confirm button of the message box, or else any
\* primary button of a message box
clickConfirmButton ==
    /\ subPc = "confirm"
    /\ \E found \in BOOLEAN, later \in BOOLEAN :
          subTrace' = subTrace \o
              (IF subChromeUp /\ found THEN ClickIf(TRUE, 2) ELSE ClickIf(later, 3))
    /\ subPc' = "second"
    /\ UNCHANGED <<subDelay, subElapsed, subChromeUp, subRecorded>>

\* browser.go 1353-1365: a second confirmation, if one is asked for
clickSecondConfirm ==
    /\ subPc = "second"
    /\ \E found \in BOOLEAN : subTrace' = subTrace \o ClickIf(found, 4)
    /\ subPc' = "record"
    /\ UNCHANGED <<subDelay, subElapsed, subChromeUp, subRecorded>>

\* browser.go 1367-1375: the ledger, the quiz_completed event, return nil
recordCompletedIfClicked ==
    /\ subPc = "record"
    /\ LET clicked == \E i \in 1..Len(subTrace) : subTrace[i].kind = "click" IN
       /\ subRecorded' = clicked
       /\ subTrace' = subTrace \o (IF clicked THEN <<SubEntry("quiz_completed", 0, 0)>>
                                   ELSE <<>>) \o <<SubEntry("log", 0, 0)>>
    /\ subPc' = "done"
    /\ UNCHANGED <<subDelay, subElapsed, subChromeUp>>

recordCompleted ==
    /\ subPc = "record"
    /\ subRecorded' = TRUE
    /\ subTrace' = subTrace \o <<SubEntry("quiz_completed", 0, 0), SubEntry("log", 0, 0)>>
    /\ subPc' = "done"
    /\ UNCHANGED <<subDelay, subElapsed, subChromeUp>>

\* server.go 408-410: a Stop request tears the browser down meanwhile
submitBrowserStopped ==
    /\ subPc \notin {"off", "done"}
    /\ subChromeUp
    /\ subChromeUp' = FALSE
    /\ UNCHANGED <<subDelay, subElapsed, subPc, subTrace, subRecorded>>

\* The countdown events sent so far, oldest first
Countdowns == SelectSeq(subTrace, LAMBDA e : e.kind = "submit_countdown")

\* C11: for a configured delay N > 0 submitQuiz sends exactly N
\* submit_countdown events, with elapsed 1, 2, ..., N in that order and total
\* N, all before the click sequence begins; for N <= 0 it sends none and goes
\* straight to the click sequence.
C11_CountdownBeforeClicks ==
    LET N == subDelay
        want == IF N > 0 THEN N ELSE 0
    IN  /\ \A i \in 1..Len(Countdowns) :
               Countdowns[i].a = i /\ Countdowns[i].b = N
        /\ Len(Countdowns) <= want
        /\ subPc \in {"clicks", "confirm", "second", "record", "done"} =>
               Len(Countdowns) = want
        /\ \A i, j \in 1..Len(subTrace) :
               (subTrace[i].kind = "click" /\ subTrace[j].kind = "submit_countdown") => j < i
        /\ (N <= 0 /\ subPc # "entry") => subPc \in {"clicks", "confirm", "second", "record", "done"}

C11_Witness ==
    /\ subDelay = 3
    /\ subPc = "done"
    /\ Len(Countdowns) = 3
    /\ Countdowns[3] = SubEntry("submit_countdown", 3, 3)
    /\ \E i \in 1..Len(subTrace) : subTrace[i] = SubEntry("click", 1, 0)

\* The places of the quiz_completed events and of the clicks in the trace
CompletedAt == {i \in 1..Len(subTrace) : subTrace[i].kind = "quiz_completed"}
ClicksAt == {i \in 1..Len(subTrace) : subTrace[i].kind = "click"}

\* C29: every execution of submitQuiz ends with the quiz URL recorded in the
\* ledger and exactly one quiz_completed event, sent after the click sequence,
\* whether or not any button was found or clicked and whether or not the
\* browser session was alive; nothing is recorded or sent before the end.
C29_SubmitAlwaysRecords ==
    /\ subPc = "done" =>
           /\ subRecorded
           /\ Cardinality(CompletedAt) = 1
           /\ \A c \in ClicksAt, d \in CompletedAt : c < d
    /\ subPc \in {"entry", "countdown", "clicks", "confirm", "second", "record"} =>
           ~subRecorded /\ CompletedAt = {}

\* The session was torn down before any click: nothing was clicked and the
\* quiz is recorded all the same.
C29_Witness ==
    /\ subPc = "done"
    /\ ~subChromeUp
    /\ ClicksAt = {}
    /\ subRecorded
    /\ Cardinality(CompletedAt) = 1

(***************************************************************************)
(* parseQuestions and parseQuestionsRegex (browser.go 606-800).            *)
(***************************************************************************)
TypeMarkers == {"SINGLE", "MULTI", "FILL"}

\* What a page shows to an extraction strategy: its type markers in page
\* order and the number of its stems.
PageContents ==
    {[types |-> t, stems |-> n] :
        t \in UNION {[1..k -> TypeMarkers] : k \in 0..MaxDomItems}, n \in 0..MaxDomItems}

\* browser.go 636-642 and 764-774: the question type of a type marker
TypeOfMarker(marker) ==
    CASE marker = "MULTI" -> "Multiple"
      [] marker = "FILL" -> "Fill"
      [] OTHER -> "Single"

\* browser.go 628-667 and 758-796: count = min(#type markers, #stems), the
\* i-th question taking the i-th marker
QuestionsOf(content) ==
    [i \in 1..(IF content.stems < Len(content.types) THEN content.stems
               ELSE Len(content.types)) |-> TypeOfMarker(content.types[i])]

NoQuestions == [by |-> "none", qs |-> <<>>]

ExtractIdle ==
    /\ dom = [types |-> <<>>, stems |-> 0]
    /\ snapshot = [types |-> <<>>, stems |-> 0]
    /\ scriptOutcome = "none"
    /\ xpc = "off"
    /\ fallbackCalls = 0
    /\ xresult = NoQuestions

\* parseQuestions is called with the snapshot htmlContent, on the live page
ExtractStart ==
    /\ dom \in PageContents
    /\ snapshot \in PageContents
    /\ scriptOutcome = "none"
    /\ xpc = "script"
    /\ fallbackCalls = 0
    /\ xresult = NoQuestions

\* browser.go 675, 693, 700: when parseQuestions hands over to the fallback
NeedsFallbackOnErrorOnly(ran, n) == ran # "ok"
NeedsFallback(ran, n) == ran # "ok" \/ n = 0

\* browser.go 671-737: run the in-page script and decode what it returns
parseQuestions ==
    /\ xpc = "script"
    /\ \E ran \in {"ok", "runFails", "badJSON"} :
          /\ scriptOutcome' = ran
          /\ IF NeedsFallback(ran, Len(QuestionsOf(dom)))
               THEN /\ xpc' = "fallback"
                    /\ UNCHANGED xresult
               ELSE /\ xresult' = [by |-> "script", qs |-> QuestionsOf(dom)]
                    /\ xpc' = "done"
    /\ UNCHANGED <<dom, snapshot, fallbackCalls>>

\* browser.go 740-800: the regex pass over the snapshot, whose result
\* parseQuestions returns as it is
parseQuestionsRegex ==
    /\ xpc = "fallback"
    /\ fallbackCalls' = fallbackCalls + 1
    /\ xresult' = [by |-> "regex", qs |-> QuestionsOf(snapshot)]
    /\ xpc' = "done"
    /\ UNCHANGED <<dom, snapshot, scriptOutcome>>

\* C12: the regex fallback runs exactly once when the in-page script fails
\* to run, returns undecodable output or yields zero questions, and its
\* result (possibly empty) is what parseQuestions returns; when the script
\* yields at least one question the fallback does not run.
C12_FallbackExactlyOnce ==
    LET scriptCount == IF dom.stems < Len(dom.types) THEN dom.stems ELSE Len(dom.types)
        snapCount == IF snapshot.stems < Len(snapshot.types) THEN snapshot.stems
                     ELSE Len(snapshot.types)
    IN  /\ fallbackCalls <= 1
        /\ xpc = "done" =>
              IF scriptOutcome \in {"runFails", "badJSON"} \/ scriptCount = 0
                THEN /\ fallbackCalls = 1
                     /\ xresult.by = "regex"
                     /\ Len(xresult.qs) = snapCount
                ELSE /\ fallbackCalls = 0
                     /\ xresult.by = "script"
                     /\ Len(xresult.qs) = scriptCount
                     /\ scriptCount >= 1

C12_Witness ==
    /\ xpc = "done"
    /\ scriptOutcome = "ok"
    /\ dom.stems = 0
    /\ snapshot.stems = 0
    /\ fallbackCalls = 1
    /\ xresult = [by |-> "regex", qs |-> <<>>]

(***************************************************************************)
(* The event stream: handleSSE and sendSSEEvent (server.go 590-650).       *)
(* Events are numbered in production order; 0 is the initial "connected"   *)
(* message a listener is written at registration (server.go 614).          *)
(***************************************************************************)
Listeners == 1..MaxListeners

\* server.go 599: make(chan ProgressEvent, 100); the model lets a channel
\* hold at most MaxBuffered events when that is the smaller number
ChanCap == IF clientChanSize < MaxBuffered THEN clientChanSize ELSE MaxBuffered

SSEIdle ==
    /\ sseClients = {}
    /\ clientChan = [l \in Listeners |-> <<>>]
    /\ written = [l \in Listeners |-> <<>>]
    /\ produced = 0
    /\ listenerAt = [l \in Listeners |-> "new"]
    /\ connectedAt = [l \in Listeners |-> 0]
    /\ overflowed = [l \in Listeners |-> {}]

\* server.go 643-648: select { case clientChan <- event: default: }
OfferReplacingOldest(ch, event) ==
    IF Len(ch) < ChanCap THEN Append(ch, event) ELSE Append(Tail(ch), event)
Offer(ch, event) ==
    IF Len(ch) < ChanCap THEN Append(ch, event) ELSE ch

\* server.go 622: case event, ok := <-clientChan
ReceiveNewest(ch) ==
    [event |-> ch[Len(ch)], rest |-> SubSeq(ch, 1, Len(ch) - 1)]
Receive(ch) ==
    [event |-> Head(ch), rest |-> Tail(ch)]

\* server.go 598-617: handleSSE makes the channel, registers it and writes
\* the initial message
handleSSERegister(l) ==
    /\ listenerAt[l] = "new"
    /\ listenerAt' = [listenerAt EXCEPT ![l] = "open"]
    /\ sseClients' = sseClients \cup {l}
    /\ clientChan' = [clientChan EXCEPT ![l] = <<>>]
    /\ written' = [written EXCEPT ![l] = <<0>>]
    /\ connectedAt' = [connectedAt EXCEPT ![l] = produced]
    /\ UNCHANGED <<produced, overflowed>>

\* server.go 620-631: one pass of the loop taking an event off the channel
handleSSEDeliver(l) ==
    /\ listenerAt[l] = "open"
    /\ clientChan[l] # <<>>
    /\ written' = [written EXCEPT ![l] = Append(@, Receive(clientChan[l]).event)]
    /\ clientChan' = [clientChan EXCEPT ![l] = Receive(clientChan[l]).rest]
    /\ UNCHANGED <<sseClients, produced, listenerAt, connectedAt, overflowed>>

\* server.go 632-634 and 606-611: the request ends; the deferred function
\* unregisters and closes the channel
handleSSEDisconnect(l) ==
    /\ listenerAt[l] = "open"
    /\ listenerAt' = [listenerAt EXCEPT ![l] = "closed"]
    /\ sseClients' = sseClients \ {l}
    /\ clientChan' = [clientChan EXCEPT ![l] = <<>>]
    /\ UNCHANGED <<written, produced, connectedAt, overflowed>>

\* server.go 639-650: the whole call, under the read lock
sendSSEEvent ==
    /\ produced < MaxEvents
    /\ produced' = produced + 1
    /\ clientChan' = [l \in Listeners |->
                        IF l \in sseClients THEN Offer(clientChan[l], produced + 1)
                        ELSE clientChan[l]]
    /\ overflowed' = [l \in Listeners |->
                        IF l \in sseClients /\ Len(clientChan[l]) >= ChanCap
                          THEN overflowed[l] \cup {produced + 1}
                          ELSE overflowed[l]]
    /\ UNCHANGED <<sseClients, written, listenerAt, connectedAt>>

\* What listener l holds of the stream: what it was written, then what waits
\* in its channel
StreamOf(l) == written[l] \o clientChan[l]

\* C13: sendSSEEvent never blocks the producer: it can be called whatever
\* the listeners and their buffers are, and the call leaves a full buffer as
\* it was (the event is dropped for that listener only), appends the event
\* to every other registered listener's buffer, and touches nothing else.
C13_SendNeverBlocks ==
    /\ [](produced < MaxEvents => ENABLED sendSSEEvent)
    /\ [][produced' = produced + 1 =>
            /\ \A l \in sseClients :
                  clientChan'[l] =
                      IF Len(clientChan[l]) < ChanCap
                        THEN Append(clientChan[l], produced')
                        ELSE clientChan[l]
            /\ \A l \in Listeners \ sseClients : clientChan'[l] = clientChan[l]
            /\ sseClients' = sseClients
            /\ written' = written]_vars

C13_Witness ==
    \E slow \in sseClients : \E quick \in sseClients :
        /\ produced \in overflowed[slow]
        /\ Len(clientChan[slow]) = ChanCap
        /\ produced \notin overflowed[quick]
        /\ clientChan[quick] # <<>>
        /\ clientChan[quick][Len(clientChan[quick])] = produced

URLs == 1..MaxQuizzes

\* The lists of at most MaxQuizzes URLs: a selection may repeat a URL
URLLists == UNION {[1..n -> URLs] : n \in 0..MaxQuizzes}

OrchIdle ==
    /\ entry = "none"
    /\ wanted = <<>>
    /\ todo = <<>>
    /\ tpos = 0
    /\ opc = "off"
    /\ oCancelled = FALSE
    /\ oBrowserUp = FALSE
    /\ ledger = {}
    /\ ledgerAtStart = {}
    /\ sent = <<>>
    /\ navigated = <<>>
    /\ loginResult = "none"
    /\ oErr = "none"

\* A run accepted by handleStart: over a selection of URLs, or over the
\* quizzes the site lists (each URL once); the ledger holds earlier runs' URLs
OrchStart ==
    /\ entry \in {"all", "selection"}
    /\ wanted \in URLLists
    /\ entry = "all" => \A i \in 1..Len(wanted) : wanted[i] = i
    /\ todo = <<>>
    /\ tpos = 0
    /\ opc = "start"
    /\ oCancelled = FALSE
    /\ oBrowserUp = FALSE
    /\ ledger \in SUBSET URLs
    /\ ledgerAtStart = ledger
    /\ sent = <<>>
    /\ navigated = <<>>
    /\ loginResult = "none"
    /\ oErr = "none"

\* browser.go 139-161: Start launches the browser and returns nil
Start ==
    /\ opc = "start"
    /\ oBrowserUp' = TRUE
    /\ opc' = "login"
    /\ UNCHANGED <<entry, wanted, todo, tpos, oCancelled, ledger, ledgerAtStart,
                   sent, navigated, loginResult, oErr>>

\* browser.go 207-217: what Login returns
LoginErrNever(result) == "nil"
LoginErr(result) == IF result = "submitFails" THEN "err" ELSE "nil"

\* browser.go 191-249: Login with its call of saveCookies; the credential
\* submission fails when the browser is down, and may fail otherwise; a
\* failure of saveCookies is logged as a warning
Login ==
    /\ opc = "login"
    /\ \E result \in IF oBrowserUp THEN {"ok", "submitFails", "cookiesFail"}
                     ELSE {"submitFails"} :
          /\ loginResult' = result
          /\ sent' = IF result = "cookiesFail" THEN Append(sent, <<"warning", 0>>)
                     ELSE sent
          /\ IF LoginErr(result) # "nil"
               THEN oErr' = "err" /\ opc' = "returned"
               ELSE opc' = "build" /\ UNCHANGED oErr
    /\ UNCHANGED <<entry, wanted, todo, tpos, oCancelled, oBrowserUp, ledger,
                   ledgerAtStart, navigated>>

\* browser.go 1414-1420 with processor.go 295: the quizzes whose URL the
\* ledger does not hold
PendingOf(list, completed) == SelectSeq(list, LAMBDA u : u \notin completed)

\* browser.go 1398-1423: RunWithContext fetches the site's quizzes (which
\* may fail) and keeps the pending ones
RunWithContext ==
    /\ opc = "build"
    /\ entry = "all"
    /\ \/ /\ oErr' = "err"
          /\ opc' = "returned"
          /\ UNCHANGED todo
       \/ /\ todo' = PendingOf(wanted, ledger)
          /\ opc' = "process"
          /\ UNCHANGED oErr
    /\ UNCHANGED <<entry, wanted, tpos, oCancelled, oBrowserUp, ledger,
                   ledgerAtStart, sent, navigated, loginResult>>

\* browser.go 1446-1458: RunMultipleQuizzes makes one quiz of each URL
buildSelected ==
    /\ opc = "build"
    /\ entry = "selection"
    /\ todo' = wanted
    /\ opc' = "process"
    /\ UNCHANGED <<entry, wanted, tpos, oCancelled, oBrowserUp, ledger,
                   ledgerAtStart, sent, navigated, loginResult, oErr>>

\* browser.go 1463-1464: quizTotal == 0
NothingToDoNever(list) == FALSE
NothingToDo(list) == Len(list) = 0

\* browser.go 1462-1485 and 1500-1501: the empty list (a log event saying
\* that there is nothing to do, url 0), the loop head
processNext ==
    /\ opc = "process"
    /\ IF NothingToDo(todo)
         THEN /\ sent' = Append(sent, <<"log", 0>>)
              /\ oErr' = "nil"
              /\ opc' = "returned"
              /\ UNCHANGED tpos
         ELSE IF tpos >= Len(todo)
         THEN /\ sent' = Append(sent, <<"complete", 0>>)
              /\ oErr' = "nil"
              /\ opc' = "returned"
              /\ UNCHANGED tpos
         ELSE IF oCancelled
         THEN oErr' = "ctx" /\ opc' = "returned" /\ UNCHANGED <<tpos, sent>>
         ELSE /\ tpos' = tpos + 1
              /\ sent' = Append(sent, <<"progress", todo[tpos + 1]>>)
              /\ opc' = "quiz"
              /\ UNCHANGED oErr
    /\ UNCHANGED <<entry, wanted, todo, oCancelled, oBrowserUp, ledger,
                   ledgerAtStart, navigated, loginResult>>

\* browser.go 476-493: processQuizWithProgress up to the navigation
quizNavigate ==
    /\ opc = "quiz"
    /\ IF oCancelled
         THEN oErr' = "ctx" /\ opc' = "quizReturned" /\ UNCHANGED navigated
         ELSE /\ navigated' = Append(navigated, todo[tpos])
              /\ \/ oErr' = "err" /\ opc' = "quizReturned"
                 \/ oBrowserUp /\ opc' = "loaded" /\ UNCHANGED oErr
    /\ UNCHANGED <<entry, wanted, todo, tpos, oCancelled, oBrowserUp, ledger,
                   ledgerAtStart, sent, loginResult>>

\* browser.go 495-603 and 1256-1375: the rest of processQuizWithProgress:
\* the page is unanswerable (ledger, nil), the wait or the extraction fails
\* (error), no question is found (nil), the resolver is cancelled (error),
\* or the quiz is submitted (ledger, quiz_completed, nil)
quizFinish ==
    /\ opc = "loaded"
    /\ \E how \in {"skipped", "failed", "empty", "submitted"} \cup
                  (IF oCancelled THEN {"cancelled"} ELSE {}) :
          /\ ledger' = IF how \in {"skipped", "submitted"}
                         THEN ledger \cup {todo[tpos]} ELSE ledger
          /\ sent' = IF how = "submitted"
                       THEN Append(sent, <<"quiz_completed", todo[tpos]>>) ELSE sent
          /\ oErr' = IF how \in {"failed", "cancelled"} THEN "err" ELSE "nil"
    /\ opc' = "quizReturned"
    /\ UNCHANGED <<entry, wanted, todo, tpos, oCancelled, oBrowserUp,
                   ledgerAtStart, navigated, loginResult>>

\* browser.go 1487-1498: back in the loop
quizDone ==
    /\ opc = "quizReturned"
    /\ IF AbortsRun(oErr, oCancelled)
         THEN oErr' = "ctx" /\ opc' = "returned" /\ UNCHANGED sent
         ELSE /\ sent' = IF oErr # "nil" THEN Append(sent, <<"log", todo[tpos]>>)
                         ELSE sent
              /\ opc' = "process"
              /\ UNCHANGED oErr
    /\ UNCHANGED <<entry, wanted, todo, tpos, oCancelled, oBrowserUp, ledger,
                   ledgerAtStart, navigated, loginResult>>

\* browser.go 1388 and 1437 (deferred b.Stop) and server.go 334-358: the
\* browser is torn down and the worker sends the terminal event
runReturns ==
    /\ opc = "returned"
    /\ oBrowserUp' = FALSE
    /\ sent' = Append(sent, <<TerminalOf(IF oErr = "nil" THEN "nil" ELSE "err",
                                         oCancelled), 0>>)
    /\ opc' = "done"
    /\ UNCHANGED <<entry, wanted, todo, tpos, oCancelled, ledger, ledgerAtStart,
                   navigated, loginResult, oErr>>

\* server.go 401-403: a Stop request cancels the run's ctx
cancelCtx ==
    /\ opc \notin {"off", "done"}
    /\ ~oCancelled
    /\ oCancelled' = TRUE
    /\ UNCHANGED <<entry, wanted, todo, tpos, opc, oBrowserUp, ledger,
                   ledgerAtStart, sent, navigated, loginResult, oErr>>

\* server.go 408-410 and browser.go 164-189: then it tears the browser down
tearDown ==
    /\ oCancelled
    /\ oBrowserUp
    /\ oBrowserUp' = FALSE
    /\ UNCHANGED <<entry, wanted, todo, tpos, opc, oCancelled, ledger,
                   ledgerAtStart, sent, navigated, loginResult, oErr>>

\* The terminal event of the run, "none" until it is sent
OTerminal == IF opc = "done" THEN sent[Len(sent)][1] ELSE "none"

C22_EmptyListCompletes ==
    /\ [][(opc = "process" /\ Len(todo) = 0 /\ opc' # opc) =>
              /\ sent' = Append(sent, <<"log", 0>>)
              /\ oErr' = "nil"
              /\ opc' = "returned"
              /\ navigated' = navigated
              /\ ledger' = ledger]_vars
    /\ []((\E i \in 1..Len(sent) : sent[i] = <<"log", 0>>) =>
              /\ navigated = <<>>
              /\ ledger = ledgerAtStart
              /\ opc \in {"returned", "done"}
              /\ opc = "done" => OTerminal = "complete")

C22_Witness ==
    /\ opc = "done"
    /\ entry = "all"
    /\ wanted # <<>>
    /\ todo = <<>>
    /\ sent = << <<"log", 0>>, <<"complete", 0>> >>
    /\ navigated = <<>>
    /\ ledger = ledgerAtStart

\* C18: the pipeline never navigates to a quiz whose URL the ledger holds
\* at that moment, in a run over all pending quizzes and in a run over a
\* selection (a URL completed earlier in the same run included).
C18_NeverNavigatesCompleted ==
    [][Len(navigated') > Len(navigated) =>
          navigated'[Len(navigated')] \notin ledger]_vars

(***************************************************************************)
(* The completion ledger of Config (models.go 418-512, 566-600).           *)
(* CompletedURLs is a Go map: a function from its keys to booleans, a      *)
(* missing key reading false.  The configuration file holds the list of    *)
(* the keys and the cached quizzes with their raw flags.                   *)
(***************************************************************************)
\* The cached quiz lists: quizzes of the site in the site's order, each URL
\* at most once, with any raw flags
CachedLists ==
    {q \in UNION {[1..n -> [url : URLs, completed : BOOLEAN]] : n \in 0..MaxQuizzes} :
        \A i, j \in 1..Len(q) : i < j => q[i].url < q[j].url}

NoFile == [exists |-> FALSE, urls |-> {}, cached |-> <<>>]

ConfigIdle ==
    /\ cfgCompleted = <<>>
    /\ cachedQuizzes = <<>>
    /\ file = NoFile

\* main.go 12: the process has loaded its configuration file, or has written
\* a first one when there was none
ConfigStart ==
    /\ \/ file = NoFile
       \/ file \in [exists : {TRUE}, urls : SUBSET URLs, cached : CachedLists]
    /\ cfgCompleted = [u \in file.urls |-> TRUE]
    /\ cachedQuizzes = file.cached

\* models.go 508-512: c.CompletedURLs[url]
IsURLCompleted(m, url) == url \in DOMAIN m /\ m[url]

\* c.CompletedURLs[url] = true
SetCompleted(m, url) ==
    [x \in (DOMAIN m) \cup {url} |-> IF x = url THEN TRUE ELSE m[x]]

\* models.go 449-451: Load adds the URLs of the file to the map
FileCompletedOnly(m, urls) == [x \in urls |-> TRUE]
MergeCompleted(m, urls) ==
    [x \in (DOMAIN m) \cup urls |-> IF x \in urls THEN TRUE ELSE m[x]]

\* models.go 464-484: saveInternal writes the keys of the map and the cached
\* quizzes; a failed write leaves the file as it was
SavedFile(ok, m, cached) ==
    IF ok THEN [exists |-> TRUE, urls |-> DOMAIN m, cached |-> cached] ELSE file

\* models.go 419-455
Load ==
    /\ \/ /\ ~file.exists
          /\ \E ok \in BOOLEAN : file' = SavedFile(ok, cfgCompleted, cachedQuizzes)
          /\ UNCHANGED <<cfgCompleted, cachedQuizzes>>
       \/ /\ file.exists
          /\ \/ UNCHANGED <<cfgCompleted, cachedQuizzes, file>>
             \/ /\ cachedQuizzes' = file.cached
                /\ cfgCompleted' = MergeCompleted(cfgCompleted, file.urls)
                /\ UNCHANGED file

\* models.go 458-462
Save ==
    /\ \E ok \in BOOLEAN : file' = SavedFile(ok, cfgCompleted, cachedQuizzes)
    /\ UNCHANGED <<cfgCompleted, cachedQuizzes>>

\* models.go 495-505
ConfigAddCompletedURL(url) ==
    /\ IF IsURLCompleted(cfgCompleted, url)
         THEN UNCHANGED <<cfgCompleted, file>>
         ELSE /\ cfgCompleted' = SetCompleted(cfgCompleted, url)
              /\ \E ok \in BOOLEAN :
                    file' = SavedFile(ok, SetCompleted(cfgCompleted, url), cachedQuizzes)
    /\ UNCHANGED cachedQuizzes

\* models.go 588-600
MarkQuizCompleted(url) ==
    /\ cfgCompleted' = SetCompleted(cfgCompleted, url)
    /\ cachedQuizzes' = [i \in 1..Len(cachedQuizzes) |->
                            IF cachedQuizzes[i].url = url
                              THEN [cachedQuizzes[i] EXCEPT !.completed = TRUE]
                              ELSE cachedQuizzes[i]]
    /\ UNCHANGED file

\* models.go 580-585: the caller's list, then Save
SaveCachedQuizzes(list) ==
    /\ cachedQuizzes' = list
    /\ \E ok \in BOOLEAN : file' = SavedFile(ok, cfgCompleted, list)
    /\ UNCHANGED cfgCompleted

\* models.go 566-577: the cached quizzes with the flag read from the map
GetCachedQuizzes ==
    [i \in 1..Len(cachedQuizzes) |->
        [cachedQuizzes[i] EXCEPT !.completed = IsURLCompleted(cfgCompleted, cachedQuizzes[i].url)]]

\* C17: a URL the ledger holds as completed stays completed through every
\* operation on the configuration (AddCompletedURL, MarkQuizCompleted, Load,
\* Save, SaveCachedQuizzes; a skip and a submit are sequences of these, a
\* cancellation and a Stop call none): the map still reads true for it, the
\* file that lists it still does, and a cached quiz of that URL is reported
\* completed.
C17_CompletedStaysCompleted ==
    [][\A u \in URLs :
          IsURLCompleted(cfgCompleted, u) =>
              /\ IsURLCompleted(cfgCompleted', u)
              /\ u \in file.urls => u \in file'.urls
              /\ \A i \in 1..Len(GetCachedQuizzes') :
                    GetCachedQuizzes'[i].url = u => GetCachedQuizzes'[i].completed]_vars

C17_Witness ==
    /\ IsURLCompleted(cfgCompleted, 1)
    /\ 1 \notin file.urls
    /\ \E i \in 1..Len(cachedQuizzes) :
          /\ cachedQuizzes[i].url = 1
          /\ ~cachedQuizzes[i].completed
          /\ GetCachedQuizzes[i].completed

(***************************************************************************)
(* ModelManager (models.go 179-216) over Config.Models (535-547).  A       *)
(* profile is known by its position in the configured list; its reply to   *)
(* the prompt is an answer, an empty answer without error, or an error.    *)
(***************************************************************************)
Replies == {"answer", "empty", "error"}

ProfileLists ==
    UNION {[1..n -> [enabled : BOOLEAN, key : BOOLEAN, reply : Replies]] :
              n \in 0..MaxProfiles}

NoAnswer == [answer |-> 0, err |-> "none", last |-> 0]

ManagerIdle ==
    /\ profiles = <<>>
    /\ mmodels = <<>>
    /\ mpos = 0
    /\ mpc = "off"
    /\ requests = <<>>
    /\ lastErr = 0
    /\ mresult = NoAnswer

ManagerStart ==
    /\ profiles \in ProfileLists
    /\ mmodels = <<>>
    /\ mpos = 0
    /\ mpc = "new"
    /\ requests = <<>>
    /\ lastErr = 0
    /\ mresult = NoAnswer

\* models.go 536-547: the enabled profiles with a non-empty key, in the
\* configured order
GetEnabledModels(list) ==
    SelectSeq([i \in 1..Len(list) |-> i], LAMBDA i : list[i].enabled /\ list[i].key)

\* models.go 184-197
NewModelManager ==
    /\ mpc = "new"
    /\ mmodels' = GetEnabledModels(profiles)
    /\ mpc' = "GetAnswer"
    /\ UNCHANGED <<profiles, mpos, requests, lastErr, mresult>>

\* models.go 201-205
ManagerGetAnswer ==
    /\ mpc = "GetAnswer"
    /\ IF Len(mmodels) = 0
         THEN /\ mresult' = [answer |-> 0, err |-> "noModels", last |-> 0]
              /\ mpc' = "done"
              /\ UNCHANGED mpos
         ELSE /\ mpos' = 1
              /\ mpc' = "loop"
              /\ UNCHANGED mresult
    /\ UNCHANGED <<profiles, mmodels, requests, lastErr>>

\* models.go 208: err == nil && answer != ""
WinsWithoutError(got) == got # "error"
Wins(got) == got = "answer"

\* models.go 206-213: one pass of the loop: the request to the profile at
\* mpos, whose error (0 for nil) becomes lastErr when it does not win
tryModel ==
    /\ mpc = "loop"
    /\ mpos <= Len(mmodels)
    /\ requests' = Append(requests, mmodels[mpos])
    /\ IF Wins(profiles[mmodels[mpos]].reply)
         THEN /\ mresult' = [answer |-> mmodels[mpos], err |-> "nil", last |-> 0]
              /\ mpc' = "done"
              /\ UNCHANGED <<mpos, lastErr>>
         ELSE /\ lastErr' = IF profiles[mmodels[mpos]].reply = "error"
                              THEN mmodels[mpos] ELSE 0
              /\ mpos' = mpos + 1
              /\ UNCHANGED <<mresult, mpc>>
    /\ UNCHANGED <<profiles, mmodels>>

\* models.go 215: every profile was tried
allModelsFailed ==
    /\ mpc = "loop"
    /\ mpos > Len(mmodels)
    /\ mresult' = [answer |-> 0, err |-> "allFailed", last |-> lastErr]
    /\ mpc' = "done"
    /\ UNCHANGED <<profiles, mmodels, mpos, requests, lastErr>>

\* The usable profiles, and the first of them that answers
UsableProfiles == {i \in 1..Len(profiles) : profiles[i].enabled /\ profiles[i].key}
Winners == {i \in UsableProfiles : profiles[i].reply = "answer"}

\* C19: GetAnswer sends its requests to the enabled profiles with a key, in
\* the configured order, up to the first that returns a non-empty answer
\* without error, whose answer it returns; when none does, it has asked
\* every one of them and fails with the error of the last (nil when that
\* profile returned an empty answer); with no usable profile it fails
\* without a request.
C19_FirstAnswerWins ==
    /\ \A i \in 1..Len(requests) : requests[i] \in UsableProfiles
    /\ \A i \in 1..Len(requests) : \A j \in 1..Len(requests) :
          i < j => requests[i] < requests[j]
    /\ mpc = "done" =>
          IF UsableProfiles = {}
            THEN requests = <<>> /\ mresult.err = "noModels" /\ mresult.answer = 0
            ELSE IF Winners # {}
            THEN LET w == CHOOSE i \in Winners : \A j \in Winners : i <= j
                 IN  /\ mresult = [answer |-> w, err |-> "nil", last |-> 0]
                     /\ {requests[i] : i \in 1..Len(requests)} =
                            {i \in UsableProfiles : i <= w}
            ELSE LET z == CHOOSE i \in UsableProfiles : \A j \in UsableProfiles : j <= i
                 IN  /\ mresult.err = "allFailed"
                     /\ mresult.answer = 0
                     /\ mresult.last = (IF profiles[z].reply = "error" THEN z ELSE 0)
                     /\ {requests[i] : i \in 1..Len(requests)} = UsableProfiles

C19_Witness ==
    /\ mpc = "done"
    /\ Len(profiles) = 3
    /\ ~profiles[1].key
    /\ profiles[2].reply = "empty"
    /\ requests = <<2, 3>>
    /\ mresult = [answer |-> 3, err |-> "nil", last |-> 0]

(***************************************************************************)
(* The server mutex (internal/web/server.go): every handler statement by   *)
(* statement, with the holder of s.mu.                                     *)
(***************************************************************************)
\* The HTTP handlers; a handler's goroutine is the continuation of its handler.
Handlers == {"start", "stop", "quizzes", "login"}

\* The handlers that make a cancellable ctx (server.go 302, 471).
CtxOwners == {"start", "quizzes"}

\* The cancel handles of a BrowserExecutor (browser.go 154-157).
Handles == {"timeoutCancel", "cancel", "allocCancel"}

\* The fields the mutex guards: s.status.Running, s.executor, s.cancelFunc.
Guarded == {"Running", "executor", "cancelFunc"}

\* BrowserExecutor.Stop (browser.go 164-189): its statements in program order.
StopOrderAllocFirst == <<"allocCancel", "timeoutCancel", "cancel", "sleep">>

StopOrder == <<"timeoutCancel", "cancel", "sleep", "allocCancel">>

MutexStart ==
    /\ mu = "free"
    /\ hpc = [h \in Handlers |-> "idle"]
    /\ statusRunning = FALSE
    /\ sCancelFunc = "nil"
    /\ sExecutor = FALSE
    /\ tokenDone = [h \in CtxOwners |-> FALSE]
    /\ handles = [x \in Handles |-> FALSE]
    /\ chrome = "none"
    /\ stopAt = [h \in {"start", "stop"} |-> 0]
    /\ stopTrace = <<>>
    /\ nilSeen = {}

MutexIdle == MutexStart

\* What the statement at a position does besides memory accesses: "sleep",
\* "network" (a browser or site round trip), "teardown" (a cancel handle of
\* the browser is called) or "mem".
OpKind(h, at) ==
    CASE at = "Stop" ->
             IF StopOrder[stopAt[h]] = "sleep" THEN "sleep" ELSE "teardown"
      [] at \in {"login", "pipeline", "fetch", "browserLogin"} -> "network"
      [] at = "ownStop" -> "teardown"
      [] OTHER -> "mem"

\* The guarded fields the statement at a position reads or writes.
FieldsAt(at) ==
    CASE at = "gate" -> {"Running"}
      [] at = "setCancel" -> {"cancelFunc"}
      [] at = "setExec" -> {"executor"}
      [] at = "cleanup" -> Guarded
      [] at = "cancelToken" -> {"cancelFunc"}
      [] at = "readExec" -> {"executor"}
      [] at = "clear" -> {"Running", "executor"}
      [] OTHER -> {}

\* s.mu.Lock() (server.go 286, 308, 318, 339, 347, 355, 370, 400, 453, 475,
\* 659, 676, 689, 697, 704): blocks until the mutex is free.
Lock(h, from, to) ==
    /\ hpc[h] = from
    /\ mu = "free"
    /\ mu' = h
    /\ hpc' = [hpc EXCEPT ![h] = to]

\* The statements of a locked section followed by s.mu.Unlock().
Unlock(h, from, to) ==
    /\ hpc[h] = from
    /\ mu = h
    /\ mu' = "free"
    /\ hpc' = [hpc EXCEPT ![h] = to]

\* A statement outside any locked section.
Step(h, from, to) ==
    /\ hpc[h] = from
    /\ hpc' = [hpc EXCEPT ![h] = to]
    /\ UNCHANGED mu

\* server.go 286, 453, 659: a request arrives and takes the mutex.
lockGate(h) ==
    /\ h \in {"start", "quizzes", "login"}
    /\ Lock(h, "idle", "gate")
    /\ UNCHANGED <<statusRunning, sCancelFunc, sExecutor, tokenDone, handles, chrome,
                   stopAt, stopTrace, nilSeen>>

\* server.go 287-299, 454-468, 660-671: rejected when Running, else Running
\* is set; the mutex is released either way.
gate(h) ==
    /\ h \in {"start", "quizzes", "login"}
    /\ IF statusRunning
       THEN Unlock(h, "gate", "idle") /\ UNCHANGED statusRunning
       ELSE /\ Unlock(h, "gate", IF h = "login" THEN "browserLogin" ELSE "setCancel")
            /\ statusRunning' = TRUE
    /\ UNCHANGED <<sCancelFunc, sExecutor, tokenDone, handles, chrome, stopAt,
                   stopTrace, nilSeen>>

\* server.go 302-303, 471-472: ctx, cancel := context.WithCancel(...);
\* s.cancelFunc = cancel, after the mutex was released.
setCancel(h) ==
    /\ h \in CtxOwners
    /\ Step(h, "setCancel", IF h = "start" THEN "lockExec" ELSE "fetch")
    /\ sCancelFunc' = h
    /\ tokenDone' = [tokenDone EXCEPT ![h] = FALSE]
    /\ UNCHANGED <<statusRunning, sExecutor, handles, chrome, stopAt, stopTrace, nilSeen>>

\* server.go 316-318: the worker makes its executor and takes the mutex.
lockExec ==
    /\ Lock("start", "lockExec", "setExec")
    /\ handles' = [x \in Handles |-> FALSE]
    /\ chrome' = "none"
    /\ UNCHANGED <<statusRunning, sCancelFunc, sExecutor, tokenDone, stopAt,
                   stopTrace, nilSeen>>

\* server.go 319-320: s.executor = executor; s.mu.Unlock()
setExec ==
    /\ Unlock("start", "setExec", "allocator")
    /\ sExecutor' = TRUE
    /\ UNCHANGED <<statusRunning, sCancelFunc, tokenDone, handles, chrome, stopAt,
                   stopTrace, nilSeen>>

\* BrowserExecutor.Start, browser.go 154: b.allocCtx, b.allocCancel = ...
startAllocator ==
    /\ Step("start", "allocator", "session")
    /\ handles' = [handles EXCEPT !["allocCancel"] = TRUE]
    /\ chrome' = "up"
    /\ UNCHANGED <<statusRunning, sCancelFunc, sExecutor, tokenDone, stopAt,
                   stopTrace, nilSeen>>

\* BrowserExecutor.Start, browser.go 155-158: b.cancel and b.timeoutCancel
startSession ==
    /\ Step("start", "session", "login")
    /\ handles' = [handles EXCEPT !["cancel"] = TRUE, !["timeoutCancel"] = TRUE]
    /\ UNCHANGED <<statusRunning, sCancelFunc, sExecutor, tokenDone, chrome, stopAt,
                   stopTrace, nilSeen>>

\* browser.go 1391-1396, 1439-1444: Login, a round trip to the site, followed
\* by a progress event.
workerLogin ==
    /\ Step("start", "login", "callback")
    /\ UNCHANGED <<statusRunning, sCancelFunc, sExecutor, tokenDone, handles, chrome,
                   stopAt, stopTrace, nilSeen>>

\* progressCallback, server.go 370: s.mu.Lock()
lockCallback(h) ==
    /\ h \in CtxOwners
    /\ Lock(h, "callback", "status")
    /\ UNCHANGED <<statusRunning, sCancelFunc, sExecutor, tokenDone, handles, chrome,
                   stopAt, stopTrace, nilSeen>>

\* progressCallback, server.go 371-379: the status text and counters are
\* written, then s.mu.Unlock(); the event is sent after that (382-390).
callbackStatus(h) ==
    /\ h \in CtxOwners
    /\ Unlock(h, "status", IF h = "start" THEN "pipeline" ELSE "ownStop")
    /\ UNCHANGED <<statusRunning, sCancelFunc, sExecutor, tokenDone, handles, chrome,
                   stopAt, stopTrace, nilSeen>>

\* The quizzes of the run (browser.go 1462-1502): round trips to the site and
\* the models; then the deferred b.Stop() begins (1389, 1437).
workerPipeline ==
    /\ Step("start", "pipeline", "Stop")
    /\ stopAt' = [stopAt EXCEPT !["start"] = 1]
    /\ UNCHANGED <<statusRunning, sCancelFunc, sExecutor, tokenDone, handles, chrome,
                   stopTrace, nilSeen>>

\* What calling a cancel handle does to the browser (browser.go 171-185).
ChromeAfter(op, c) ==
    CASE op = "cancel" /\ c = "up" -> "pageClosed"
      [] op = "allocCancel" /\ c \in {"up", "pageClosed"} -> "killed"
      [] OTHER -> c

\* One statement of BrowserExecutor.Stop (browser.go 164-189) called by h:
\* a handle that is set is called and set to nil, time.Sleep sleeps.
StopStatement(h, after) ==
    LET op == StopOrder[stopAt[h]]
        last == stopAt[h] = Len(StopOrder)
        acts == op = "sleep" \/ handles[op]
    IN  /\ hpc[h] = "Stop"
        /\ hpc' = [hpc EXCEPT ![h] = IF last THEN after ELSE "Stop"]
        /\ stopAt' = [stopAt EXCEPT ![h] = IF last THEN 0 ELSE @ + 1]
        /\ IF op # "sleep" /\ handles[op]
           THEN /\ handles' = [handles EXCEPT ![op] = FALSE]
                /\ chrome' = ChromeAfter(op, chrome)
           ELSE UNCHANGED <<handles, chrome>>
        /\ IF h = "stop"
           THEN /\ stopTrace' = IF acts THEN Append(stopTrace, op) ELSE stopTrace
                /\ nilSeen' = IF acts THEN nilSeen ELSE nilSeen \cup {op}
           ELSE UNCHANGED <<stopTrace, nilSeen>>
        /\ UNCHANGED <<mu, statusRunning, sCancelFunc, sExecutor, tokenDone>>

\* browser.go 1389, 1437: the worker's deferred b.Stop()
workerStop == StopStatement("start", "lockTerminal")

\* server.go 334-358: the terminal event is sent, then s.mu.Lock()
lockTerminal ==
    /\ Lock("start", "lockTerminal", "terminalStatus")
    /\ UNCHANGED <<statusRunning, sCancelFunc, sExecutor, tokenDone, handles, chrome,
                   stopAt, stopTrace, nilSeen>>

\* server.go 340-343, 348-349, 356-358: the status text, then s.mu.Unlock()
terminalStatus ==
    /\ Unlock("start", "terminalStatus", "lockCleanup")
    /\ UNCHANGED <<statusRunning, sCancelFunc, sExecutor, tokenDone, handles, chrome,
                   stopAt, stopTrace, nilSeen>>

\* server.go 308, 475, 676: the deferred function takes the mutex.
lockCleanup(h) ==
    /\ h \in {"start", "quizzes", "login"}
    /\ Lock(h, "lockCleanup", "cleanup")
    /\ UNCHANGED <<statusRunning, sCancelFunc, sExecutor, tokenDone, handles, chrome,
                   stopAt, stopTrace, nilSeen>>

\* server.go 309-312, 476-478, 677-678: Running = false; the worker of a run
\* also clears cancelFunc and executor, handleQuizzes clears cancelFunc. The
\* handler's ctx and the worker's executor are out of scope from here on.
cleanup(h) ==
    /\ h \in {"start", "quizzes", "login"}
    /\ Unlock(h, "cleanup", "idle")
    /\ statusRunning' = FALSE
    /\ sCancelFunc' = IF h \in CtxOwners THEN "nil" ELSE sCancelFunc
    /\ sExecutor' = IF h = "start" THEN FALSE ELSE sExecutor
    /\ tokenDone' = IF h \in CtxOwners THEN [tokenDone EXCEPT ![h] = FALSE] ELSE tokenDone
    /\ chrome' = IF h = "start" THEN "none" ELSE chrome
    /\ UNCHANGED <<handles, stopAt, stopTrace, nilSeen>>

\* server.go 484-499: handleQuizzes starts its own browser, logs in and
\* fetches the list; the executor reports through progressCallback.
quizzesFetch ==
    /\ Step("quizzes", "fetch", "callback")
    /\ UNCHANGED <<statusRunning, sCancelFunc, sExecutor, tokenDone, handles, chrome,
                   stopAt, stopTrace, nilSeen>>

\* server.go 485, 684: the deferred executor.Stop() of the handler's own
\* executor, which s.executor never refers to.
ownStop(h) ==
    /\ h \in {"quizzes", "login"}
    /\ Step(h, "ownStop", "lockCleanup")
    /\ UNCHANGED <<statusRunning, sCancelFunc, sExecutor, tokenDone, handles, chrome,
                   stopAt, stopTrace, nilSeen>>

\* server.go 683-695: handleLogin's goroutine starts a browser and logs in.
browserLogin ==
    /\ Step("login", "browserLogin", "lockLoginStatus")
    /\ UNCHANGED <<statusRunning, sCancelFunc, sExecutor, tokenDone, handles, chrome,
                   stopAt, stopTrace, nilSeen>>

\* server.go 689, 697, 704: s.mu.Lock()
lockLoginStatus ==
    /\ Lock("login", "lockLoginStatus", "loginStatus")
    /\ UNCHANGED <<statusRunning, sCancelFunc, sExecutor, tokenDone, handles, chrome,
                   stopAt, stopTrace, nilSeen>>

\* server.go 690-691, 698-699, 705-706: s.status.Message, s.mu.Unlock()
loginStatus ==
    /\ Unlock("login", "loginStatus", "ownStop")
    /\ UNCHANGED <<statusRunning, sCancelFunc, sExecutor, tokenDone, handles, chrome,
                   stopAt, stopTrace, nilSeen>>

\* handleStop, server.go 400: s.mu.Lock()
lockStop ==
    /\ Lock("stop", "idle", "cancelToken")
    /\ UNCHANGED <<statusRunning, sCancelFunc, sExecutor, tokenDone, handles, chrome,
                   stopAt, stopTrace, nilSeen>>

\* handleStop, server.go 401-403: if s.cancelFunc != nil { s.cancelFunc() }
stopCancelToken ==
    /\ hpc["stop"] = "cancelToken"
    /\ hpc' = [hpc EXCEPT !["stop"] = "readExec"]
    /\ IF sCancelFunc # "nil"
       THEN /\ tokenDone' = [tokenDone EXCEPT ![sCancelFunc] = TRUE]
            /\ stopTrace' = Append(stopTrace, "token")
            /\ UNCHANGED nilSeen
       ELSE /\ nilSeen' = nilSeen \cup {"token"}
            /\ UNCHANGED <<tokenDone, stopTrace>>
    /\ UNCHANGED <<mu, statusRunning, sCancelFunc, sExecutor, handles, chrome, stopAt>>

\* handleStop, server.go 405-406: if s.executor != nil { s.executor.Stop() ...
stopReadExec ==
    /\ hpc["stop"] = "readExec"
    /\ hpc' = [hpc EXCEPT !["stop"] = IF sExecutor THEN "Stop" ELSE "clear"]
    /\ stopAt' = [stopAt EXCEPT !["stop"] = IF sExecutor THEN 1 ELSE 0]
    /\ UNCHANGED <<mu, statusRunning, sCancelFunc, sExecutor, tokenDone, handles,
                   chrome, stopTrace, nilSeen>>

\* handleStop, server.go 406: the statements of s.executor.Stop()
stopExecutorStop == StopStatement("stop", "clear")

\* handleStop, server.go 407-411: s.executor = nil (inside the if, where it
\* was set), Running = false, the message, s.mu.Unlock()
stopClear ==
    /\ Unlock("stop", "clear", "send")
    /\ sExecutor' = FALSE
    /\ statusRunning' = FALSE
    /\ UNCHANGED <<sCancelFunc, tokenDone, handles, chrome, stopAt, stopTrace, nilSeen>>

\* handleStop, server.go 413-416: the log event and the reply
stopSend ==
    /\ Step("stop", "send", "idle")
    /\ stopTrace' = <<>>
    /\ nilSeen' = {}
    /\ UNCHANGED <<statusRunning, sCancelFunc, sExecutor, tokenDone, handles, chrome,
                   stopAt>>

\* C23: no sleep, network call or browser teardown is performed while the
\* server mutex is held: a handler that holds the mutex is at a statement that
\* only updates memory.
C23_NoLongOperationUnderMutex ==
    \A h \in Handlers : mu = h => OpKind(h, hpc[h]) = "mem"

\* C24: every read and write of the active flag, the executor handle and the
\* cancellation handle happens while the server mutex is held, so no two
\* handlers are ever at statements that touch one of the three fields unless
\* each holds the mutex when it executes its own.
C24_GuardedFieldsUnderMutex ==
    \A h \in Handlers : FieldsAt(hpc[h]) \cap Guarded # {} => mu = h

\* The place of a step in the order the Stop request is to follow.
StopRank(op) ==
    CASE op = "token" -> 1
      [] op = "timeoutCancel" -> 2
      [] op = "cancel" -> 3
      [] op = "sleep" -> 4
      [] op = "allocCancel" -> 5

QuizIdle ==
    /\ qzPc = "off"
    /\ qzQuestions = 0
    /\ qzControls = {}
    /\ qzUsable = FALSE
    /\ qzAnswers = <<>>
    /\ qzIndex = 0
    /\ qzCancelled = FALSE
    /\ qzErr = "none"
    /\ qzStages = {}
    /\ qzRequests = 0
    /\ qzFailed = 0
    /\ qzFilled = 0
    /\ qzFillErr = FALSE
    /\ qzClicks = 0
    /\ qzEvents = <<>>
    /\ qzLedger = FALSE
    /\ qzLedgerBefore = FALSE

\* The container is visible and the markup is about to be parsed; the URL may
\* be in the ledger already (a selected quiz is not filtered).
QuizStart ==
    /\ qzPc = "extract"
    /\ qzQuestions = 0
    /\ qzControls = {}
    /\ qzUsable \in BOOLEAN
    /\ qzAnswers = <<>>
    /\ qzIndex = 0
    /\ qzCancelled = FALSE
    /\ qzErr = "none"
    /\ qzStages = {}
    /\ qzRequests = 0
    /\ qzFailed = 0
    /\ qzFilled = 0
    /\ qzFillErr = FALSE
    /\ qzClicks = 0
    /\ qzEvents = <<>>
    /\ qzLedger \in BOOLEAN
    /\ qzLedgerBefore = qzLedger

\* What a model gives for one question: nothing usable, or an answer.
QuizAnswers == {"", "A"}

\* browser.go 564: if len(questions) == 0
FoundNothingNever(n) == FALSE

FoundNothing(n) == n = 0

\* The call returns err.
QuizEnds(err) ==
    /\ qzErr' = err
    /\ qzPc' = "returned"

\* browser.go 558-570: parseQuestions; no question is logged and ends the
\* call with nil, else the progress event and on to getBatchAnswers.
quizParse ==
    /\ qzPc = "extract"
    /\ \E n \in 0..MaxExtracted, c \in SUBSET (1..MaxExtracted) :
          /\ c \subseteq 1..n
          /\ qzQuestions' = n
          /\ qzControls' = c
          /\ IF FoundNothing(n)
               THEN /\ qzEvents' = Append(qzEvents, <<"log", "no questions">>)
                    /\ QuizEnds("nil")
               ELSE /\ qzEvents' = Append(qzEvents, <<"progress", "resolving">>)
                    /\ qzPc' = "chunk"
                    /\ UNCHANGED qzErr
    /\ UNCHANGED <<qzUsable, qzAnswers, qzIndex, qzCancelled, qzStages, qzRequests,
                   qzFailed, qzFilled, qzFillErr, qzClicks, qzLedger, qzLedgerBefore>>

\* browser.go 572-579: an error of getBatchAnswers ends the call, with
\* ctx.Err() and a log event when ctx is cancelled.
ResolverFailed ==
    /\ qzEvents' = IF qzCancelled THEN Append(qzEvents, <<"log", "cancelled">>)
                   ELSE qzEvents
    /\ QuizEnds(IF qzCancelled THEN "ctx" ELSE "err")

\* browser.go 873-878: the error of a question's own request returns from
\* getBatchAnswers only when ctx is cancelled; else it is logged and the loop
\* continues.
SingleFailureReturnsAlways(cancelled) == TRUE

SingleFailureReturns(cancelled) == cancelled

\* browser.go 571 with getBatchAnswers (828-861): no request for an empty
\* list; else the check of ctx, then the chunk's request, which fails when no
\* profile is usable or every model fails, and whose reply may hold no answer
\* for some or all questions.
quizChunk ==
    /\ qzPc = "chunk"
    /\ qzStages' = qzStages \cup {"resolver"}
    /\ IF qzQuestions = 0
         THEN /\ qzAnswers' = <<>>
              /\ qzPc' = "check"
              /\ UNCHANGED <<qzIndex, qzErr, qzRequests, qzFailed, qzEvents>>
         ELSE IF qzCancelled
           THEN /\ ResolverFailed
                /\ UNCHANGED <<qzAnswers, qzIndex, qzRequests, qzFailed>>
           ELSE /\ qzRequests' = qzRequests + 1
                /\ \/ /\ qzUsable
                      /\ qzAnswers' \in [1..qzQuestions -> QuizAnswers]
                      /\ qzPc' = "check"
                      /\ UNCHANGED <<qzIndex, qzErr, qzFailed, qzEvents>>
                   \/ /\ qzAnswers' = [i \in 1..qzQuestions |-> ""]
                      /\ qzFailed' = qzFailed + 1
                      /\ qzIndex' = 0
                      /\ qzPc' = "degraded"
                      /\ UNCHANGED <<qzErr, qzEvents>>
    /\ UNCHANGED <<qzQuestions, qzControls, qzUsable, qzCancelled, qzFilled, qzFillErr,
                   qzClicks, qzLedger, qzLedgerBefore>>

\* browser.go 864-882: the degraded loop: the check of ctx, then the
\* question's own request; a failed one leaves the slot empty.
quizSingle ==
    /\ qzPc = "degraded"
    /\ IF qzIndex >= qzQuestions
         THEN /\ qzPc' = "check"
              /\ UNCHANGED <<qzAnswers, qzIndex, qzErr, qzRequests, qzFailed, qzEvents>>
         ELSE IF qzCancelled
           THEN /\ ResolverFailed
                /\ UNCHANGED <<qzAnswers, qzIndex, qzRequests, qzFailed>>
           ELSE /\ qzRequests' = qzRequests + 1
                /\ \/ /\ qzUsable
                      /\ \E a \in QuizAnswers :
                            qzAnswers' = [qzAnswers EXCEPT ![qzIndex + 1] = a]
                      /\ qzIndex' = qzIndex + 1
                      /\ UNCHANGED <<qzPc, qzErr, qzFailed, qzEvents>>
                   \/ /\ qzFailed' = qzFailed + 1
                      /\ UNCHANGED qzAnswers
                      /\ IF SingleFailureReturns(qzCancelled)
                           THEN ResolverFailed /\ UNCHANGED qzIndex
                           ELSE /\ qzIndex' = qzIndex + 1
                                /\ UNCHANGED <<qzPc, qzErr, qzEvents>>
    /\ UNCHANGED <<qzQuestions, qzControls, qzUsable, qzCancelled, qzStages, qzFilled,
                   qzFillErr, qzClicks, qzLedger, qzLedgerBefore>>

\* browser.go 582-587: select on ctx.Done()
CancelledAtCheckNever(cancelled) == FALSE

CancelledAtCheck(cancelled) == cancelled

\* browser.go 581-587: the check of ctx after the answers are in; at "check"
\* the resolver's last request has its reply and getBatchAnswers is returning.
quizCheck ==
    /\ qzPc = "check"
    /\ IF CancelledAtCheck(qzCancelled)
         THEN /\ qzEvents' = Append(qzEvents, <<"log", "cancelled">>)
              /\ QuizEnds("ctx")
         ELSE /\ qzEvents' = Append(qzEvents, <<"progress", "filling">>)
              /\ qzPc' = "inject"
              /\ UNCHANGED qzErr
    /\ UNCHANGED <<qzQuestions, qzControls, qzUsable, qzAnswers, qzIndex, qzCancelled,
                   qzStages, qzRequests, qzFailed, qzFilled, qzFillErr, qzClicks,
                   qzLedger, qzLedgerBefore>>

\* browser.go 592-597 with batchSubmitAnswers (1029-1253): the slots with an
\* answer are handed to the script, which fills those whose control it finds;
\* when the script cannot be run the error is logged and nothing counts as
\* filled.
quizFill ==
    /\ qzPc = "inject"
    /\ qzStages' = qzStages \cup {"injector"}
    /\ \E scriptErr \in BOOLEAN :
          /\ qzFillErr' = (scriptErr /\ qzQuestions > 0)
          /\ qzFilled' = IF qzFillErr' THEN 0
                         ELSE Cardinality({i \in qzControls : qzAnswers[i] # ""})
          /\ qzEvents' = (IF qzFillErr' THEN Append(qzEvents, <<"log", "fill error">>)
                          ELSE qzEvents) \o << <<"progress", "submitting">> >>
    /\ qzPc' = "submit"
    /\ UNCHANGED <<qzQuestions, qzControls, qzUsable, qzAnswers, qzIndex, qzCancelled,
                   qzErr, qzRequests, qzFailed, qzClicks, qzLedger, qzLedgerBefore>>

\* browser.go 600 with submitQuiz (1256-1375): the clicks that find their
\* button, then the ledger and the quiz_completed event; nil is returned.
quizSubmit ==
    /\ qzPc = "submit"
    /\ qzStages' = qzStages \cup {"submit"}
    /\ \E c \in 0..1 : qzClicks' = c
    /\ qzLedger' = TRUE
    /\ qzEvents' = Append(qzEvents, <<"quiz_completed", "url">>)
    /\ QuizEnds("nil")
    /\ UNCHANGED <<qzQuestions, qzControls, qzUsable, qzAnswers, qzIndex, qzCancelled,
                   qzRequests, qzFailed, qzFilled, qzFillErr, qzLedgerBefore>>

\* server.go 401-403: a Stop request cancels the run's ctx
quizCancel ==
    /\ qzPc \notin {"off", "returned"}
    /\ ~qzCancelled
    /\ qzCancelled' = TRUE
    /\ UNCHANGED <<qzPc, qzQuestions, qzControls, qzUsable, qzAnswers, qzIndex, qzErr,
                   qzStages, qzRequests, qzFailed, qzFilled, qzFillErr, qzClicks,
                   qzEvents, qzLedger, qzLedgerBefore>>

\* C28: a quiz with at least one question whose token is not cancelled always
\* reaches the submit stage: failed model calls, no usable profile, an answer
\* list of empty answers, a slot without a control or an error of the
\* injection script do not end the quiz before it.
C28_AlwaysReachesSubmitting ==
    /\ (qzPc = "returned" /\ qzQuestions > 0 /\ ~qzCancelled) =>
           /\ qzStages = {"resolver", "injector", "submit"}
           /\ qzErr = "nil"
    /\ (qzQuestions > 0 /\ ~qzCancelled /\ qzPc # "returned") => qzErr = "none"

\* No profile is usable: the chunk request and both single requests failed,
\* every answer is empty, the script failed too, and the quiz was submitted.
C28_Witness ==
    /\ qzPc = "returned"
    /\ ~qzCancelled
    /\ ~qzUsable
    /\ qzQuestions = 2
    /\ qzControls = {1}
    /\ qzFailed = 3
    /\ qzAnswers = <<"", "">>
    /\ qzFillErr
    /\ "submit" \in qzStages
    /\ qzErr = "nil"

\* C30: when parseQuestions finds no question the condition is logged and the
\* call returns nil without resolving, injecting or submitting: no model
\* request, no submit click, no quiz_completed event, the ledger as it was.
C30_NoQuestionsEndsQuietly ==
    (qzPc \notin {"extract", "off"} /\ qzQuestions = 0) =>
        /\ qzPc = "returned"
        /\ qzErr = "nil"
        /\ qzEvents = << <<"log", "no questions">> >>
        /\ qzStages = {}
        /\ qzRequests = 0
        /\ qzClicks = 0
        /\ qzLedger = qzLedgerBefore

\* Nothing was found on the page of a quiz that is not in the ledger.
C30_Witness ==
    /\ qzPc = "returned"
    /\ qzQuestions = 0
    /\ qzErr = "nil"
    /\ ~qzLedger
    /\ qzEvents = << <<"log", "no questions">> >>

\* The positions of a quiz before the answers are handed to the injector
BeforeInjection == {"extract", "chunk", "degraded", "check"}

\* Nothing of the quiz was injected, submitted, announced or recorded.
NotSubmitted ==
    /\ "injector" \notin qzStages
    /\ "submit" \notin qzStages
    /\ qzClicks = 0
    /\ \A k \in 1..Len(qzEvents) : qzEvents[k][1] # "quiz_completed"
    /\ qzLedger = qzLedgerBefore

\* C34: once the token is cancelled while answer resolution of a quiz has not
\* returned, the quiz stays before injection until its call returns (with
\* ctx.Err() when a question was found): it is never injected or submitted, no submit click is
\* performed, no quiz_completed event is emitted and the ledger is as the run
\* found it.
C34_CancelledBeforeResolvedNeverSubmitted ==
    [][(qzCancelled /\ qzPc \in BeforeInjection) =>
          /\ qzCancelled'
          /\ qzPc' \in BeforeInjection \cup {"returned"}
          /\ (qzPc' = "returned" /\ qzQuestions' > 0) => qzErr' = "ctx"
          /\ NotSubmitted']_vars

\* The token was cancelled while the last request was out; its reply held an
\* answer, and the call returned ctx.Err() without a click.
C34_Witness ==
    /\ qzPc = "returned"
    /\ qzCancelled
    /\ qzErr = "ctx"
    /\ qzRequests = 1
    /\ qzQuestions = 2
    /\ qzAnswers = <<"A", "A">>
    /\ qzControls = {1, 2}
    /\ ~qzLedger
    /\ NotSubmitted

(***************************************************************************)
(* parseBatchAnswers (browser.go 970-1015) applied to responses of tagged  *)
(* and numbered lines whose numbers may lie outside 1..questionCount.      *)
(***************************************************************************)
\* The numbers a line of a response may carry: 0 and one past the largest
\* questionCount included.
TagNumbers == 0..(MaxSlots + 1)

\* A line with the delimiter tag, a line with a leading ordinal, and a tagged
\* line whose answer is only a full-width stop (nothing is left of it after
\* the cleaning).
ResponseLines ==
    {<<LB, DA, AN>> \o Itoa(k) \o <<RB, ":", SP, "A", NL>> : k \in TagNumbers}
    \cup {Itoa(k) \o <<".", SP, "C", NL>> : k \in TagNumbers}
    \cup {<<LB, DA, AN, "1", RB, FWSTOP, NL>>}

RECURSIVE Flatten(_)
Flatten(ls) == IF ls = <<>> THEN <<>> ELSE Head(ls) \o Flatten(Tail(ls))

Responses ==
    {Flatten(ls) : ls \in UNION {[1..n -> ResponseLines] : n \in 0..MaxLines}}

ParseIdle ==
    /\ prResponse = <<>>
    /\ prCount = 0
    /\ prPc = "off"
    /\ prTagged = <<>>
    /\ prOut = <<>>

ParseStart ==
    /\ prResponse \in Responses
    /\ prCount \in 0..MaxSlots
    /\ prPc = "call"
    /\ prTagged = <<>>
    /\ prOut = <<>>

\* browser.go 970-1015: the call; prTagged keeps answers as it is at line 996.
callParseBatchAnswers ==
    /\ prPc = "call"
    /\ prTagged' = storeTagged([i \in 1..prCount |-> <<>>],
                               FindAllAnswer(prResponse, 1), prCount)
    /\ prOut' = parseBatchAnswers(prResponse, prCount)
    /\ prPc' = "done"
    /\ UNCHANGED <<prResponse, prCount>>

\* The matches of a pattern that carry the number k
WithNumber(matches, k) == SelectSeq(matches, LAMBDA m : Sscanf(m.num) = k)

\* C31: parseBatchAnswers returns exactly questionCount slots; the answer of a
\* tag numbered k is stored in slot k-1 (slot k of a 1-based sequence) only
\* when 1 <= k <= questionCount, so that a slot holds the answer of the last
\* tag with its number or nothing; and the looser pattern fills only slots
\* the tag pattern left empty, with the answer of a line that carries the
\* slot's number, and never changes a slot the tag pattern filled.
C31_SlotsOfParseBatchAnswers ==
    prPc = "done" =>
        /\ Len(prOut) = prCount
        /\ Len(prTagged) = prCount
        /\ \A i \in 1..prCount :
              LET tags == WithNumber(FindAllAnswer(prResponse, 1), i)
                  alts == WithNumber(FindAllAlt(prResponse, 1), i)
              IN  /\ prTagged[i] = IF tags = <<>> THEN <<>>
                                   ELSE CleanAnswer(tags[Len(tags)].text)
                  /\ prTagged[i] # <<>> => prOut[i] = prTagged[i]
                  /\ prOut[i] # prTagged[i] =>
                         \E j \in 1..Len(alts) : prOut[i] = CleanAltAnswer(alts[j].text)

\* Two questions; the response tags question 1 and question 3 and numbers
\* question 1 again: the tag 3 is dropped, slot 1 keeps the tagged answer
\* although the looser pattern ran, and slot 2 stays empty.
C31_Witness ==
    /\ prPc = "done"
    /\ prCount = 2
    /\ prResponse = <<LB, DA, AN, "1", RB, ":", SP, "A", NL>>
                    \o <<LB, DA, AN, "3", RB, ":", SP, "A", NL>>
                    \o <<"1", ".", SP, "C", NL>>
    /\ prOut = <<<<"A">>, <<>>>>

(***************************************************************************)
(* What one extraction strategy makes of the type markers, stems and       *)
(* option blocks it finds (browser.go 615-665 and 744-796).                *)
(***************************************************************************)
\* The stems of a page are told apart by their text.
StemTexts == {"stem a", "stem b"}

\* An option block holds no option the strategy can read, or two.
BlockSizes == {0, 2}

SeqsUpTo(S, n) == UNION {[1..k -> S] : k \in 0..n}

PairIdle ==
    /\ pgTypes = <<>>
    /\ pgStems = <<>>
    /\ pgBlocks = <<>>
    /\ pgStrategy = "none"
    /\ pgPc = "off"
    /\ pgQuestions = <<>>

PairStart ==
    /\ pgTypes \in SeqsUpTo(TypeMarkers, MaxDomItems)
    /\ pgStems \in SeqsUpTo(StemTexts, MaxDomItems)
    /\ pgBlocks \in SeqsUpTo(BlockSizes, MaxDomItems)
    /\ pgStrategy \in {"script", "regex"}
    /\ pgPc = "call"
    /\ pgQuestions = <<>>

\* browser.go 628 and 758-761: count = min(#type markers, #stems)
CountUsed(types, stems) == IF Len(stems) < Len(types) THEN Len(stems) ELSE Len(types)

\* browser.go 647 and 782: the options of question i (1-based here) are read
\* from the i-th option block, when there is one and the type is not FILL.
OptionsOfAnyType(marker, blocks, i) == IF i <= Len(blocks) THEN blocks[i] ELSE 0

OptionsOf(marker, blocks, i) ==
    IF i <= Len(blocks) /\ marker # "FILL" THEN blocks[i] ELSE 0

\* browser.go 636-642: typeCode from the class name of the type element
TypeCode(className) ==
    IF className = "MULTI" THEN "MULTI" ELSE IF className = "FILL" THEN "FILL" ELSE "SINGLE"

\* browser.go 615-665 and 703-733: the in-page script and its decoding
jsGetQuestions ==
    /\ pgPc = "call"
    /\ pgStrategy = "script"
    /\ pgQuestions' =
           [i \in 1..CountUsed(pgTypes, pgStems) |->
               [type |-> TypeOfMarker(TypeCode(pgTypes[i])),
                content |-> pgStems[i],
                options |-> OptionsOf(TypeCode(pgTypes[i]), pgBlocks, i)]]
    /\ pgPc' = "done"
    /\ UNCHANGED <<pgTypes, pgStems, pgBlocks, pgStrategy>>

\* browser.go 744-796: the regex pass
regexQuestions ==
    /\ pgPc = "call"
    /\ pgStrategy = "regex"
    /\ pgQuestions' =
           [i \in 1..CountUsed(pgTypes, pgStems) |->
               [type |-> TypeOfMarker(pgTypes[i]),
                content |-> pgStems[i],
                options |-> OptionsOf(pgTypes[i], pgBlocks, i)]]
    /\ pgPc' = "done"
    /\ UNCHANGED <<pgTypes, pgStems, pgBlocks, pgStrategy>>

\* C32: either strategy returns exactly min(#type markers, #stems) questions
\* in page order, the i-th with the type of the i-th marker (Multiple for
\* MULTI, Fill for FILL, Single otherwise), the i-th stem and the options of
\* the i-th option block; a Fill question has no options even when there is
\* an option block at its place.
C32_QuestionsPairedInPageOrder ==
    pgPc = "done" =>
        /\ Len(pgQuestions) \in {Len(pgTypes), Len(pgStems)}
        /\ Len(pgQuestions) <= Len(pgTypes)
        /\ Len(pgQuestions) <= Len(pgStems)
        /\ \A i \in 1..Len(pgQuestions) :
              /\ pgQuestions[i].type =
                     (CASE pgTypes[i] = "MULTI" -> "Multiple"
                        [] pgTypes[i] = "FILL" -> "Fill"
                        [] OTHER -> "Single")
              /\ pgQuestions[i].content = pgStems[i]
              /\ pgQuestions[i].type = "Fill" => pgQuestions[i].options = 0
              /\ (pgQuestions[i].type # "Fill" /\ i <= Len(pgBlocks)) =>
                     pgQuestions[i].options = pgBlocks[i]
              /\ i > Len(pgBlocks) => pgQuestions[i].options = 0

\* A Fill question and a Single question, each with an option block of two
\* options at its place: the Fill question has none, the Single one has two.
C32_Witness ==
    /\ pgPc = "done"
    /\ pgStrategy = "regex"
    /\ pgTypes = <<"FILL", "SINGLE">>
    /\ pgStems = <<"stem a", "stem b">>
    /\ pgBlocks = <<2, 2>>
    /\ pgQuestions[1] = [type |-> "Fill", content |-> "stem a", options |-> 0]
    /\ pgQuestions[2] = [type |-> "Single", content |-> "stem b", options |-> 2]

(***************************************************************************)
(* The server status under the progress events of a run: progressCallback  *)
(* (server.go 369-380) applied to every event the pipeline sends, with the  *)
(* worker's own writes of Progress and Total.                              *)
(***************************************************************************)
StatusIdle ==
    /\ stPc = "off"
    /\ stQuizTotal = 0
    /\ stQuiz = 0
    /\ stCount = 0
    /\ stSent = 0
    /\ stDelay = 0
    /\ stElapsed = 0
    /\ stProgress = 0
    /\ stTotal = 0

\* NewServer: the zero status, no run yet
StatusStart ==
    /\ stPc = "idle"
    /\ stQuizTotal = 0
    /\ stQuiz = 0
    /\ stCount = 0
    /\ stSent = 0
    /\ stDelay = 0
    /\ stElapsed = 0
    /\ stProgress = 0
    /\ stTotal = 0

\* server.go 372-377: Total and Progress are each stored only when the
\* event's value is above zero; the result is <<Progress, Total>>.
progressCallback(progress, total) ==
    << IF progress > 0 THEN progress ELSE stProgress,
       IF total > 0 THEN total ELSE stTotal >>

\* The pipeline sends an event with these two numbers.
sendFullProgress(progress, total) ==
    /\ stProgress' = progressCallback(progress, total)[1]
    /\ stTotal' = progressCallback(progress, total)[2]

\* server.go 286-299: a Start request is accepted; Progress is reset, Total
\* is not. The run has a list of quizzes and the configured submit delay.
statusStart ==
    /\ stPc = "idle"
    /\ \E n \in 1..MaxQuizzes, d \in 0..MaxDelay :
          /\ stQuizTotal' = n
          /\ stDelay' = d
    /\ stQuiz' = 0
    /\ stCount' = 0
    /\ stSent' = 0
    /\ stElapsed' = 0
    /\ stProgress' = 0
    /\ stPc' = "list"
    /\ UNCHANGED stTotal

\* browser.go 1469: the progress event with the number of quizzes
statusListed ==
    /\ stPc = "list"
    /\ sendFullProgress(0, 0)
    /\ stPc' = "loop"
    /\ UNCHANGED <<stQuizTotal, stQuiz, stCount, stSent, stDelay, stElapsed>>

\* browser.go 1471-1500: the loop head: a cancelled token ends the run with
\* a log event, an exhausted list with the complete event, else the next
\* quiz is announced (1485, 483).
statusLoop ==
    /\ stPc = "loop"
    /\ sendFullProgress(0, 0)
    /\ \/ /\ stPc' = "cancelled"
          /\ UNCHANGED stQuiz
       \/ /\ stQuiz = stQuizTotal
          /\ stPc' = "complete"
          /\ UNCHANGED stQuiz
       \/ /\ stQuiz < stQuizTotal
          /\ stQuiz' = stQuiz + 1
          /\ stPc' = "load"
    /\ UNCHANGED <<stQuizTotal, stCount, stSent, stDelay, stElapsed>>

\* browser.go 558-570: the page's questions are counted: none (or a sentinel
\* page) is a log event and the next quiz, else the event (0, totalQuestions).
statusFound ==
    /\ stPc = "load"
    /\ \E n \in 0..MaxExtracted :
          /\ stCount' = n
          /\ IF n = 0
               THEN sendFullProgress(0, 0) /\ stPc' = "loop"
               ELSE sendFullProgress(0, n) /\ stPc' = "resolve"
    /\ stSent' = 0
    /\ UNCHANGED <<stQuizTotal, stQuiz, stDelay, stElapsed>>

\* browser.go 838-899: one chunk: the event (batchEnd, len(questions)) is
\* sent only after a chunk request that succeeded.
statusChunk ==
    /\ stPc = "resolve"
    /\ stSent < stCount
    /\ LET batchEnd == IF stSent + batchSize > stCount THEN stCount
                       ELSE stSent + batchSize
       IN  /\ stSent' = batchEnd
           /\ \/ sendFullProgress(batchEnd, stCount)
              \/ UNCHANGED <<stProgress, stTotal>>
    /\ UNCHANGED <<stPc, stQuizTotal, stQuiz, stCount, stDelay, stElapsed>>

\* browser.go 592: the event (0, totalQuestions) before injection
statusFilling ==
    /\ stPc = "resolve"
    /\ stSent = stCount
    /\ sendFullProgress(0, stCount)
    /\ stPc' = "filled"
    /\ UNCHANGED <<stQuizTotal, stQuiz, stCount, stSent, stDelay, stElapsed>>

\* browser.go 599: the event (totalQuestions, totalQuestions) after it
statusFilled ==
    /\ stPc = "filled"
    /\ sendFullProgress(stCount, stCount)
    /\ stElapsed' = 0
    /\ stPc' = "countdown"
    /\ UNCHANGED <<stQuizTotal, stQuiz, stCount, stSent, stDelay>>

\* browser.go 1261-1264, 1372: one submit_countdown event (elapsed, delay)
\* per second of the delay, then the quiz_completed event (0, 0).
statusCountdown ==
    /\ stPc = "countdown"
    /\ IF stElapsed < stDelay
         THEN /\ stElapsed' = stElapsed + 1
              /\ sendFullProgress(stElapsed + 1, stDelay)
              /\ UNCHANGED stPc
         ELSE /\ sendFullProgress(0, 0)
              /\ stPc' = "loop"
              /\ UNCHANGED stElapsed
    /\ UNCHANGED <<stQuizTotal, stQuiz, stCount, stSent, stDelay>>

\* server.go 336-343, 354-358: the worker's terminal write: a cancelled run
\* zeroes both numbers, a completed one sets Progress to Total.
statusTerminal ==
    /\ stPc \in {"cancelled", "complete"}
    /\ IF stPc = "cancelled"
         THEN stProgress' = 0 /\ stTotal' = 0
         ELSE stProgress' = stTotal /\ UNCHANGED stTotal
    /\ stPc' = "idle"
    /\ UNCHANGED <<stQuizTotal, stQuiz, stCount, stSent, stDelay, stElapsed>>

\* C35: in every state of the status, whenever Total > 0 the stored Progress
\* is at most the stored Total, across the progress, countdown and log events
\* of consecutive quizzes of a run.
C35_ProgressAtMostTotal == stTotal > 0 => stProgress <= stTotal

(***************************************************************************)
(* The teardown of one executor by two callers of BrowserExecutor.Stop     *)
(* (browser.go 164-189): the Stop request, which calls it under the        *)
(* server mutex (server.go 405-408), and the run worker, whose deferred    *)
(* b.Stop() (browser.go 1437) and cleanup (server.go 306-312) take no lock *)
(* of the executor.  Stop itself holds no lock: the test of a handle, its  *)
(* call and its clearing are separate steps.                               *)
(***************************************************************************)
Callers == {"request", "worker"}

TeardownIdle ==
    /\ tdPc = [c \in Callers |-> "off"]
    /\ tdAt = [c \in Callers |-> 0]
    /\ tdHandle = [h \in Handles |-> FALSE]
    /\ tdCalls = [h \in Handles |-> 0]
    /\ tdExecutor = FALSE

\* server.go 317-320: the worker has registered a new executor; its browser
\* is not started yet.
TeardownStart ==
    /\ tdPc = [c \in Callers |-> "ready"]
    /\ tdAt = [c \in Callers |-> 0]
    /\ tdHandle = [h \in Handles |-> FALSE]
    /\ tdCalls = [h \in Handles |-> 0]
    /\ tdExecutor = TRUE

\* browser.go 139-161: Start stores the three handles.
executorStart ==
    /\ tdPc["worker"] = "ready"
    /\ tdHandle' = [h \in Handles |-> TRUE]
    /\ tdPc' = [tdPc EXCEPT !["worker"] = "running"]
    /\ UNCHANGED <<tdAt, tdCalls, tdExecutor>>

\* browser.go 1437: the pipeline returns and the deferred b.Stop() begins.
workerDefer ==
    /\ tdPc["worker"] = "running"
    /\ tdPc' = [tdPc EXCEPT !["worker"] = "test"]
    /\ tdAt' = [tdAt EXCEPT !["worker"] = 1]
    /\ UNCHANGED <<tdHandle, tdCalls, tdExecutor>>

\* server.go 405-407: if s.executor != nil { s.executor.Stop()
requestStop ==
    /\ tdPc["request"] = "ready"
    /\ tdExecutor
    /\ tdPc' = [tdPc EXCEPT !["request"] = "test"]
    /\ tdAt' = [tdAt EXCEPT !["request"] = 1]
    /\ UNCHANGED <<tdHandle, tdCalls, tdExecutor>>

\* The caller goes on to the statement after the one it is at.
StopAdvance(c) ==
    IF tdAt[c] = Len(StopOrder)
      THEN /\ tdPc' = [tdPc EXCEPT ![c] = "stopped"]
           /\ tdAt' = [tdAt EXCEPT ![c] = 0]
      ELSE /\ tdPc' = [tdPc EXCEPT ![c] = "test"]
           /\ tdAt' = [tdAt EXCEPT ![c] = @ + 1]

\* browser.go 168, 174, 183: if b.x != nil; 180: time.Sleep
stopTest(c) ==
    /\ tdPc[c] = "test"
    /\ LET op == StopOrder[tdAt[c]]
       IN  IF op # "sleep" /\ tdHandle[op]
             THEN /\ tdPc' = [tdPc EXCEPT ![c] = "call"]
                  /\ UNCHANGED tdAt
             ELSE StopAdvance(c)
    /\ UNCHANGED <<tdHandle, tdCalls, tdExecutor>>

\* browser.go 169, 175, 184: b.x()
stopCall(c) ==
    /\ tdPc[c] = "call"
    /\ tdCalls' = [tdCalls EXCEPT ![StopOrder[tdAt[c]]] = @ + 1]
    /\ tdPc' = [tdPc EXCEPT ![c] = "clear"]
    /\ UNCHANGED <<tdAt, tdHandle, tdExecutor>>

\* browser.go 170, 176, 185: b.x = nil
stopClearHandle(c) ==
    /\ tdPc[c] = "clear"
    /\ tdHandle' = [tdHandle EXCEPT ![StopOrder[tdAt[c]]] = FALSE]
    /\ StopAdvance(c)
    /\ UNCHANGED <<tdCalls, tdExecutor>>

\* server.go 408 (the request) and 306-312 (the worker): s.executor = nil.
\* The worker takes the mutex for it, which the request holds from before
\* its Stop until after its own clearing.
executorCleared(c) ==
    /\ tdPc[c] = "stopped"
    /\ c = "worker" => tdPc["request"] \in {"ready", "done"}
    /\ tdExecutor' = FALSE
    /\ tdPc' = [tdPc EXCEPT ![c] = "done"]
    /\ UNCHANGED <<tdAt, tdHandle, tdCalls>>

\* C37: each of the executor's three teardown handles is invoked at most
\* once over the executor's lifetime, for every interleaving of the Stop
\* request's teardown with the worker's deferred teardown.
C37_EachHandleCalledAtMostOnce == \A h \in Handles : tdCalls[h] <= 1

(***************************************************************************)
(* The listener set under its lock: handleSSE's registration and deferred  *)
(* cleanup (server.go 601-611) take s.sseMu for writing, sendSSEEvent      *)
(* (639-650) holds it for reading while it loops over the set.  Each       *)
(* statement under a lock is a step of its own.                            *)
(***************************************************************************)
\* The goroutines that broadcast: the run's worker and a request handler
Senders == {"worker", "handler"}

BroadcastIdle ==
    /\ bcAt = [l \in Listeners |-> "off"]
    /\ bcClients = {}
    /\ bcClosed = {}
    /\ bcReaders = {}
    /\ bcWriter = 0
    /\ bcTodo = [s \in Senders |-> {}]
    /\ bcSent = 0
    /\ bcGot = [l \in Listeners |-> 0]

\* NewServer: no listener, no event
BroadcastStart ==
    /\ bcAt = [l \in Listeners |-> "new"]
    /\ bcClients = {}
    /\ bcClosed = {}
    /\ bcReaders = {}
    /\ bcWriter = 0
    /\ bcTodo = [s \in Senders |-> {}]
    /\ bcSent = 0
    /\ bcGot = [l \in Listeners |-> 0]

\* sync.RWMutex: Lock waits for every reader and the writer to be gone
CanLockAmongReaders(rs, w) == w = 0

CanLock(rs, w) == rs = {} /\ w = 0

\* sync.RWMutex: RLock waits for the writer to be gone
CanRLock(w) == w = 0

\* server.go 599-604: the channel is made and registered under the lock
sseRegister(l) ==
    /\ bcAt[l] = "new"
    /\ CanLock(bcReaders, bcWriter)
    /\ bcClients' = bcClients \cup {l}
    /\ bcAt' = [bcAt EXCEPT ![l] = "open"]
    /\ UNCHANGED <<bcClosed, bcReaders, bcWriter, bcTodo, bcSent, bcGot>>

\* server.go 621-634: the loop returns: the request's context is done
sseLeave(l) ==
    /\ bcAt[l] = "open"
    /\ bcAt' = [bcAt EXCEPT ![l] = "leaving"]
    /\ UNCHANGED <<bcClients, bcClosed, bcReaders, bcWriter, bcTodo, bcSent, bcGot>>

\* server.go 608: s.sseMu.Lock()
sseLock(l) ==
    /\ bcAt[l] = "leaving"
    /\ CanLock(bcReaders, bcWriter)
    /\ bcWriter' = l
    /\ bcAt' = [bcAt EXCEPT ![l] = "locked"]
    /\ UNCHANGED <<bcClients, bcClosed, bcReaders, bcTodo, bcSent, bcGot>>

\* server.go 609: delete(s.sseClients, clientChan)
sseDelete(l) ==
    /\ bcAt[l] = "locked"
    /\ bcClients' = bcClients \ {l}
    /\ bcAt' = [bcAt EXCEPT ![l] = "deleted"]
    /\ UNCHANGED <<bcClosed, bcReaders, bcWriter, bcTodo, bcSent, bcGot>>

\* server.go 610: close(clientChan)
sseClose(l) ==
    /\ bcAt[l] = "deleted"
    /\ bcClosed' = bcClosed \cup {l}
    /\ bcAt' = [bcAt EXCEPT ![l] = "closed"]
    /\ UNCHANGED <<bcClients, bcReaders, bcWriter, bcTodo, bcSent, bcGot>>

\* server.go 611: s.sseMu.Unlock()
sseUnlock(l) ==
    /\ bcAt[l] = "closed"
    /\ bcWriter' = 0
    /\ bcAt' = [bcAt EXCEPT ![l] = "gone"]
    /\ UNCHANGED <<bcClients, bcClosed, bcReaders, bcTodo, bcSent, bcGot>>

\* server.go 640-643: RLock, and the loop begins over the set as it is
broadcastBegin(s) ==
    /\ s \notin bcReaders
    /\ bcSent < MaxEvents
    /\ CanRLock(bcWriter)
    /\ bcReaders' = bcReaders \cup {s}
    /\ bcTodo' = [bcTodo EXCEPT ![s] = bcClients]
    /\ bcSent' = bcSent + 1
    /\ UNCHANGED <<bcAt, bcClients, bcClosed, bcWriter, bcGot>>

\* server.go 643-648: one turn of the loop: the event is offered to a channel
broadcastOffer(s) ==
    /\ s \in bcReaders
    /\ \E l \in bcTodo[s] :
          /\ bcGot' = [bcGot EXCEPT ![l] = @ + 1]
          /\ bcTodo' = [bcTodo EXCEPT ![s] = @ \ {l}]
    /\ UNCHANGED <<bcAt, bcClients, bcClosed, bcReaders, bcWriter, bcSent>>

\* server.go 641: the deferred RUnlock, after the loop
broadcastEnd(s) ==
    /\ s \in bcReaders
    /\ bcTodo[s] = {}
    /\ bcReaders' = bcReaders \ {s}
    /\ UNCHANGED <<bcAt, bcClients, bcClosed, bcWriter, bcTodo, bcSent, bcGot>>

\* C38: no event is offered to a channel that is closed or unregistered, and
\* the removal and the closing of a channel are atomic for every broadcast:
\* while a broadcast holds the set no listener is between taking the lock
\* and releasing it, and the channels still to be offered to are registered
\* and open.
C38_NoSendOnClosedChannel ==
    [][/\ \A l \in Listeners :
             bcGot'[l] # bcGot[l] => (l \in bcClients /\ l \notin bcClosed)
       /\ bcReaders' # {} =>
             /\ \A l \in Listeners : bcAt'[l] \notin {"locked", "deleted", "closed"}
             /\ \A s \in bcReaders' : bcTodo'[s] \subseteq bcClients' \ bcClosed']_vars

\* A listener that received an event is gone, its channel closed, and a
\* later broadcast is under way that offers to the other listener only;
\* that one is leaving and waits for the broadcast to end.
C38_Witness ==
    \E l \in Listeners, o \in Listeners, s \in Senders :
        /\ bcAt[l] = "gone"
        /\ l \in bcClosed
        /\ bcGot[l] >= 1
        /\ s \in bcReaders
        /\ bcTodo[s] = {o}
        /\ bcAt[o] = "leaving"

(***************************************************************************)
(* Specifications                                                          *)
(***************************************************************************)
InitResolver ==
    /\ NewServer
    /\ ResolverStart
    /\ RunIdle
    /\ InjectIdle
    /\ SubmitIdle
    /\ ExtractIdle
    /\ OrchIdle
    /\ SSEIdle
    /\ ConfigIdle
    /\ ManagerIdle
    /\ MutexIdle
    /\ QuizIdle
    /\ ParseIdle
    /\ PairIdle
    /\ StatusIdle
    /\ TeardownIdle
    /\ BroadcastIdle
OthersResolver == <<serverVars, runVars, injectVars, submitVars, extractVars, orchVars, sseVars, configVars, managerVars, muVars, quizVars, parseVars, pairVars, statusVars, teardownVars, bcastVars>>
NextResolver ==
    \/ getBatchAnswers /\ UNCHANGED OthersResolver
    \/ chunkLoopHead /\ UNCHANGED OthersResolver
    \/ chunkRequest /\ UNCHANGED OthersResolver
    \/ degradedLoopHead /\ UNCHANGED OthersResolver
    \/ singleRequest /\ UNCHANGED OthersResolver
    \/ cancelContext /\ UNCHANGED OthersResolver
SpecResolver == InitResolver /\ [][NextResolver]_vars

InitRun ==
    /\ NewServer
    /\ ResolverIdle
    /\ RunStart
    /\ InjectIdle
    /\ SubmitIdle
    /\ ExtractIdle
    /\ OrchIdle
    /\ SSEIdle
    /\ ConfigIdle
    /\ ManagerIdle
    /\ MutexIdle
    /\ QuizIdle
    /\ ParseIdle
    /\ PairIdle
    /\ StatusIdle
    /\ TeardownIdle
    /\ BroadcastIdle
OthersRun == <<serverVars, resolverVars, injectVars, submitVars, extractVars, orchVars, sseVars, configVars, managerVars, muVars, quizVars, parseVars, pairVars, statusVars, teardownVars, bcastVars>>
NextRun ==
    \/ RunMultipleQuizzes /\ UNCHANGED OthersRun
    \/ ProcessQuizzesWithContext /\ UNCHANGED OthersRun
    \/ quizLoopHead /\ UNCHANGED OthersRun
    \/ processQuizWithProgress /\ UNCHANGED OthersRun
    \/ navigate /\ UNCHANGED OthersRun
    \/ checkSentinels /\ UNCHANGED OthersRun
    \/ waitConList /\ UNCHANGED OthersRun
    \/ extractQuestions /\ UNCHANGED OthersRun
    \/ resolveAnswers /\ UNCHANGED OthersRun
    \/ answersReturned /\ UNCHANGED OthersRun
    \/ checkAfterResolve /\ UNCHANGED OthersRun
    \/ fillAnswers /\ UNCHANGED OthersRun
    \/ submitQuiz /\ UNCHANGED OthersRun
    \/ quizReturned /\ UNCHANGED OthersRun
    \/ workerReports /\ UNCHANGED OthersRun
    \/ cancelRun /\ UNCHANGED OthersRun
    \/ stopExecutor /\ UNCHANGED OthersRun
SpecRun == InitRun /\ [][NextRun]_vars

InitInject ==
    /\ NewServer
    /\ ResolverIdle
    /\ RunIdle
    /\ InjectStart
    /\ SubmitIdle
    /\ ExtractIdle
    /\ OrchIdle
    /\ SSEIdle
    /\ ConfigIdle
    /\ ManagerIdle
    /\ MutexIdle
    /\ QuizIdle
    /\ ParseIdle
    /\ PairIdle
    /\ StatusIdle
    /\ TeardownIdle
    /\ BroadcastIdle
OthersInject == <<serverVars, resolverVars, runVars, submitVars, extractVars, orchVars, sseVars, configVars, managerVars, muVars, quizVars, parseVars, pairVars, statusVars, teardownVars, bcastVars>>
NextInject ==
    \/ resolveChunk /\ UNCHANGED OthersInject
    \/ resolveDegraded /\ UNCHANGED OthersInject
    \/ batchSubmitAnswers /\ UNCHANGED OthersInject
    \/ jsBatchFill /\ UNCHANGED OthersInject
SpecInject == InitInject /\ [][NextInject]_vars

InitServer ==
    /\ NewServer
    /\ ResolverIdle
    /\ RunIdle
    /\ InjectIdle
    /\ SubmitIdle
    /\ ExtractIdle
    /\ OrchIdle
    /\ SSEIdle
    /\ ConfigIdle
    /\ ManagerIdle
    /\ MutexIdle
    /\ QuizIdle
    /\ ParseIdle
    /\ PairIdle
    /\ StatusIdle
    /\ TeardownIdle
    /\ BroadcastIdle
OthersServer == <<resolverVars, runVars, injectVars, submitVars, extractVars, orchVars, sseVars, configVars, managerVars, muVars, quizVars, parseVars, pairVars, statusVars, teardownVars, bcastVars>>
NextServer ==
    \/ handleStart /\ UNCHANGED OthersServer
    \/ handleQuizzes /\ UNCHANGED OthersServer
    \/ handleLogin /\ UNCHANGED OthersServer
    \/ handleStop /\ UNCHANGED OthersServer
    \/ \E t \in Tasks : setCancelFunc(t) /\ UNCHANGED OthersServer
    \/ \E t \in Tasks : registerExecutor(t) /\ UNCHANGED OthersServer
    \/ \E t \in Tasks : launchBrowser(t) /\ UNCHANGED OthersServer
    \/ \E t \in Tasks : pipelineReturn(t) /\ UNCHANGED OthersServer
    \/ \E t \in Tasks : reportTerminal(t) /\ UNCHANGED OthersServer
    \/ \E t \in Tasks : deferredCleanup(t) /\ UNCHANGED OthersServer
SpecServer == InitServer /\ [][NextServer]_vars

FairServer == SpecServer /\ WorkersRun

InitSubmit ==
    /\ NewServer
    /\ ResolverIdle
    /\ RunIdle
    /\ InjectIdle
    /\ SubmitStart
    /\ ExtractIdle
    /\ OrchIdle
    /\ SSEIdle
    /\ ConfigIdle
    /\ ManagerIdle
    /\ MutexIdle
    /\ QuizIdle
    /\ ParseIdle
    /\ PairIdle
    /\ StatusIdle
    /\ TeardownIdle
    /\ BroadcastIdle
OthersSubmit == <<serverVars, resolverVars, runVars, injectVars, extractVars, orchVars, sseVars, configVars, managerVars, muVars, quizVars, parseVars, pairVars, statusVars, teardownVars, bcastVars>>
NextSubmit ==
    \/ submitDelayCheck /\ UNCHANGED OthersSubmit
    \/ submitCountdown /\ UNCHANGED OthersSubmit
    \/ clickSubmitButton /\ UNCHANGED OthersSubmit
    \/ clickConfirmButton /\ UNCHANGED OthersSubmit
    \/ clickSecondConfirm /\ UNCHANGED OthersSubmit
    \/ recordCompleted /\ UNCHANGED OthersSubmit
    \/ submitBrowserStopped /\ UNCHANGED OthersSubmit
SpecSubmit == InitSubmit /\ [][NextSubmit]_vars

InitExtract ==
    /\ NewServer
    /\ ResolverIdle
    /\ RunIdle
    /\ InjectIdle
    /\ SubmitIdle
    /\ ExtractStart
    /\ OrchIdle
    /\ SSEIdle
    /\ ConfigIdle
    /\ ManagerIdle
    /\ MutexIdle
    /\ QuizIdle
    /\ ParseIdle
    /\ PairIdle
    /\ StatusIdle
    /\ TeardownIdle
    /\ BroadcastIdle
OthersExtract == <<serverVars, resolverVars, runVars, injectVars, submitVars, orchVars, sseVars, configVars, managerVars, muVars, quizVars, parseVars, pairVars, statusVars, teardownVars, bcastVars>>
NextExtract ==
    \/ parseQuestions /\ UNCHANGED OthersExtract
    \/ parseQuestionsRegex /\ UNCHANGED OthersExtract
SpecExtract == InitExtract /\ [][NextExtract]_vars

InitSSE ==
    /\ NewServer
    /\ ResolverIdle
    /\ RunIdle
    /\ InjectIdle
    /\ SubmitIdle
    /\ ExtractIdle
    /\ OrchIdle
    /\ SSEIdle
    /\ ConfigIdle
    /\ ManagerIdle
    /\ MutexIdle
    /\ QuizIdle
    /\ ParseIdle
    /\ PairIdle
    /\ StatusIdle
    /\ TeardownIdle
    /\ BroadcastIdle
OthersSSE == <<serverVars, resolverVars, runVars, injectVars, submitVars, extractVars, orchVars, configVars, managerVars, muVars, quizVars, parseVars, pairVars, statusVars, teardownVars, bcastVars>>
NextSSE ==
    \/ \E l \in Listeners : handleSSERegister(l) /\ UNCHANGED OthersSSE
    \/ \E l \in Listeners : handleSSEDeliver(l) /\ UNCHANGED OthersSSE
    \/ \E l \in Listeners : handleSSEDisconnect(l) /\ UNCHANGED OthersSSE
    \/ sendSSEEvent /\ UNCHANGED OthersSSE
SpecSSE == InitSSE /\ [][NextSSE]_vars

InitOrch ==
    /\ NewServer
    /\ ResolverIdle
    /\ RunIdle
    /\ InjectIdle
    /\ SubmitIdle
    /\ ExtractIdle
    /\ OrchStart
    /\ SSEIdle
    /\ ConfigIdle
    /\ ManagerIdle
    /\ MutexIdle
    /\ QuizIdle
    /\ ParseIdle
    /\ PairIdle
    /\ StatusIdle
    /\ TeardownIdle
    /\ BroadcastIdle
OthersOrch == <<serverVars, resolverVars, runVars, injectVars, submitVars, extractVars, sseVars, configVars, managerVars, muVars, quizVars, parseVars, pairVars, statusVars, teardownVars, bcastVars>>
NextOrch ==
    \/ Start /\ UNCHANGED OthersOrch
    \/ Login /\ UNCHANGED OthersOrch
    \/ RunWithContext /\ UNCHANGED OthersOrch
    \/ buildSelected /\ UNCHANGED OthersOrch
    \/ processNext /\ UNCHANGED OthersOrch
    \/ quizNavigate /\ UNCHANGED OthersOrch
    \/ quizFinish /\ UNCHANGED OthersOrch
    \/ quizDone /\ UNCHANGED OthersOrch
    \/ runReturns /\ UNCHANGED OthersOrch
    \/ cancelCtx /\ UNCHANGED OthersOrch
    \/ tearDown /\ UNCHANGED OthersOrch
SpecOrch == InitOrch /\ [][NextOrch]_vars

InitConfig ==
    /\ NewServer
    /\ ResolverIdle
    /\ RunIdle
    /\ InjectIdle
    /\ SubmitIdle
    /\ ExtractIdle
    /\ OrchIdle
    /\ SSEIdle
    /\ ConfigStart
    /\ ManagerIdle
    /\ MutexIdle
    /\ QuizIdle
    /\ ParseIdle
    /\ PairIdle
    /\ StatusIdle
    /\ TeardownIdle
    /\ BroadcastIdle
OthersConfig == <<serverVars, resolverVars, runVars, injectVars, submitVars, extractVars, orchVars, sseVars, managerVars, muVars, quizVars, parseVars, pairVars, statusVars, teardownVars, bcastVars>>
NextConfig ==
    \/ Load /\ UNCHANGED OthersConfig
    \/ Save /\ UNCHANGED OthersConfig
    \/ \E u \in URLs : ConfigAddCompletedURL(u) /\ UNCHANGED OthersConfig
    \/ \E u \in URLs : MarkQuizCompleted(u) /\ UNCHANGED OthersConfig
    \/ \E list \in CachedLists : SaveCachedQuizzes(list) /\ UNCHANGED OthersConfig
SpecConfig == InitConfig /\ [][NextConfig]_vars

InitManager ==
    /\ NewServer
    /\ ResolverIdle
    /\ RunIdle
    /\ InjectIdle
    /\ SubmitIdle
    /\ ExtractIdle
    /\ OrchIdle
    /\ SSEIdle
    /\ ConfigIdle
    /\ ManagerStart
    /\ MutexIdle
    /\ QuizIdle
    /\ ParseIdle
    /\ PairIdle
    /\ StatusIdle
    /\ TeardownIdle
    /\ BroadcastIdle
OthersManager == <<serverVars, resolverVars, runVars, injectVars, submitVars, extractVars, orchVars, sseVars, configVars, muVars, quizVars, parseVars, pairVars, statusVars, teardownVars, bcastVars>>
NextManager ==
    \/ NewModelManager /\ UNCHANGED OthersManager
    \/ ManagerGetAnswer /\ UNCHANGED OthersManager
    \/ tryModel /\ UNCHANGED OthersManager
    \/ allModelsFailed /\ UNCHANGED OthersManager
SpecManager == InitManager /\ [][NextManager]_vars

InitMutex ==
    /\ NewServer
    /\ ResolverIdle
    /\ RunIdle
    /\ InjectIdle
    /\ SubmitIdle
    /\ ExtractIdle
    /\ OrchIdle
    /\ SSEIdle
    /\ ConfigIdle
    /\ ManagerIdle
    /\ MutexStart
    /\ QuizIdle
    /\ ParseIdle
    /\ PairIdle
    /\ StatusIdle
    /\ TeardownIdle
    /\ BroadcastIdle
OthersMutex == <<serverVars, resolverVars, runVars, injectVars, submitVars, extractVars, orchVars, sseVars, configVars, managerVars, quizVars, parseVars, pairVars, statusVars, teardownVars, bcastVars>>
NextMutex ==
    \/ \E h \in Handlers : lockGate(h) /\ UNCHANGED OthersMutex
    \/ \E h \in Handlers : gate(h) /\ UNCHANGED OthersMutex
    \/ \E h \in Handlers : setCancel(h) /\ UNCHANGED OthersMutex
    \/ lockExec /\ UNCHANGED OthersMutex
    \/ setExec /\ UNCHANGED OthersMutex
    \/ startAllocator /\ UNCHANGED OthersMutex
    \/ startSession /\ UNCHANGED OthersMutex
    \/ workerLogin /\ UNCHANGED OthersMutex
    \/ \E h \in Handlers : lockCallback(h) /\ UNCHANGED OthersMutex
    \/ \E h \in Handlers : callbackStatus(h) /\ UNCHANGED OthersMutex
    \/ workerPipeline /\ UNCHANGED OthersMutex
    \/ workerStop /\ UNCHANGED OthersMutex
    \/ lockTerminal /\ UNCHANGED OthersMutex
    \/ terminalStatus /\ UNCHANGED OthersMutex
    \/ \E h \in Handlers : lockCleanup(h) /\ UNCHANGED OthersMutex
    \/ \E h \in Handlers : cleanup(h) /\ UNCHANGED OthersMutex
    \/ quizzesFetch /\ UNCHANGED OthersMutex
    \/ \E h \in Handlers : ownStop(h) /\ UNCHANGED OthersMutex
    \/ browserLogin /\ UNCHANGED OthersMutex
    \/ lockLoginStatus /\ UNCHANGED OthersMutex
    \/ loginStatus /\ UNCHANGED OthersMutex
    \/ lockStop /\ UNCHANGED OthersMutex
    \/ stopCancelToken /\ UNCHANGED OthersMutex
    \/ stopReadExec /\ UNCHANGED OthersMutex
    \/ stopExecutorStop /\ UNCHANGED OthersMutex
    \/ stopClear /\ UNCHANGED OthersMutex
    \/ stopSend /\ UNCHANGED OthersMutex
SpecMutex == InitMutex /\ [][NextMutex]_vars

InitQuiz ==
    /\ NewServer
    /\ ResolverIdle
    /\ RunIdle
    /\ InjectIdle
    /\ SubmitIdle
    /\ ExtractIdle
    /\ OrchIdle
    /\ SSEIdle
    /\ ConfigIdle
    /\ ManagerIdle
    /\ MutexIdle
    /\ QuizStart
    /\ ParseIdle
    /\ PairIdle
    /\ StatusIdle
    /\ TeardownIdle
    /\ BroadcastIdle
OthersQuiz == <<serverVars, resolverVars, runVars, injectVars, submitVars, extractVars, orchVars, sseVars, configVars, managerVars, muVars, parseVars, pairVars, statusVars, teardownVars, bcastVars>>
NextQuiz ==
    \/ quizParse /\ UNCHANGED OthersQuiz
    \/ quizChunk /\ UNCHANGED OthersQuiz
    \/ quizSingle /\ UNCHANGED OthersQuiz
    \/ quizCheck /\ UNCHANGED OthersQuiz
    \/ quizFill /\ UNCHANGED OthersQuiz
    \/ quizSubmit /\ UNCHANGED OthersQuiz
    \/ quizCancel /\ UNCHANGED OthersQuiz
SpecQuiz == InitQuiz /\ [][NextQuiz]_vars

InitParse ==
    /\ NewServer
    /\ ResolverIdle
    /\ RunIdle
    /\ InjectIdle
    /\ SubmitIdle
    /\ ExtractIdle
    /\ OrchIdle
    /\ SSEIdle
    /\ ConfigIdle
    /\ ManagerIdle
    /\ MutexIdle
    /\ QuizIdle
    /\ ParseStart
    /\ PairIdle
    /\ StatusIdle
    /\ TeardownIdle
    /\ BroadcastIdle
OthersParse == <<serverVars, resolverVars, runVars, injectVars, submitVars, extractVars, orchVars, sseVars, configVars, managerVars, muVars, quizVars, pairVars, statusVars, teardownVars, bcastVars>>
NextParse ==
    \/ callParseBatchAnswers /\ UNCHANGED OthersParse
SpecParse == InitParse /\ [][NextParse]_vars

InitPair ==
    /\ NewServer
    /\ ResolverIdle
    /\ RunIdle
    /\ InjectIdle
    /\ SubmitIdle
    /\ ExtractIdle
    /\ OrchIdle
    /\ SSEIdle
    /\ ConfigIdle
    /\ ManagerIdle
    /\ MutexIdle
    /\ QuizIdle
    /\ ParseIdle
    /\ PairStart
    /\ StatusIdle
    /\ TeardownIdle
    /\ BroadcastIdle
OthersPair == <<serverVars, resolverVars, runVars, injectVars, submitVars, extractVars, orchVars, sseVars, configVars, managerVars, muVars, quizVars, parseVars, statusVars, teardownVars, bcastVars>>
NextPair ==
    \/ jsGetQuestions /\ UNCHANGED OthersPair
    \/ regexQuestions /\ UNCHANGED OthersPair
SpecPair == InitPair /\ [][NextPair]_vars

InitStatus ==
    /\ NewServer
    /\ ResolverIdle
    /\ RunIdle
    /\ InjectIdle
    /\ SubmitIdle
    /\ ExtractIdle
    /\ OrchIdle
    /\ SSEIdle
    /\ ConfigIdle
    /\ ManagerIdle
    /\ MutexIdle
    /\ QuizIdle
    /\ ParseIdle
    /\ PairIdle
    /\ StatusStart
    /\ TeardownIdle
    /\ BroadcastIdle
OthersStatus == <<serverVars, resolverVars, runVars, injectVars, submitVars, extractVars, orchVars, sseVars, configVars, managerVars, muVars, quizVars, parseVars, pairVars, teardownVars, bcastVars>>
NextStatus ==
    \/ statusStart /\ UNCHANGED OthersStatus
    \/ statusListed /\ UNCHANGED OthersStatus
    \/ statusLoop /\ UNCHANGED OthersStatus
    \/ statusFound /\ UNCHANGED OthersStatus
    \/ statusChunk /\ UNCHANGED OthersStatus
    \/ statusFilling /\ UNCHANGED OthersStatus
    \/ statusFilled /\ UNCHANGED OthersStatus
    \/ statusCountdown /\ UNCHANGED OthersStatus
    \/ statusTerminal /\ UNCHANGED OthersStatus
SpecStatus == InitStatus /\ [][NextStatus]_vars

InitTeardown ==
    /\ NewServer
    /\ ResolverIdle
    /\ RunIdle
    /\ InjectIdle
    /\ SubmitIdle
    /\ ExtractIdle
    /\ OrchIdle
    /\ SSEIdle
    /\ ConfigIdle
    /\ ManagerIdle
    /\ MutexIdle
    /\ QuizIdle
    /\ ParseIdle
    /\ PairIdle
    /\ StatusIdle
    /\ TeardownStart
    /\ BroadcastIdle
OthersTeardown == <<serverVars, resolverVars, runVars, injectVars, submitVars, extractVars, orchVars, sseVars, configVars, managerVars, muVars, quizVars, parseVars, pairVars, statusVars, bcastVars>>
NextTeardown ==
    \/ executorStart /\ UNCHANGED OthersTeardown
    \/ workerDefer /\ UNCHANGED OthersTeardown
    \/ requestStop /\ UNCHANGED OthersTeardown
    \/ \E c \in Callers : stopTest(c) /\ UNCHANGED OthersTeardown
    \/ \E c \in Callers : stopCall(c) /\ UNCHANGED OthersTeardown
    \/ \E c \in Callers : stopClearHandle(c) /\ UNCHANGED OthersTeardown
    \/ \E c \in Callers : executorCleared(c) /\ UNCHANGED OthersTeardown
SpecTeardown == InitTeardown /\ [][NextTeardown]_vars

InitBroadcast ==
    /\ NewServer
    /\ ResolverIdle
    /\ RunIdle
    /\ InjectIdle
    /\ SubmitIdle
    /\ ExtractIdle
    /\ OrchIdle
    /\ SSEIdle
    /\ ConfigIdle
    /\ ManagerIdle
    /\ MutexIdle
    /\ QuizIdle
    /\ ParseIdle
    /\ PairIdle
    /\ StatusIdle
    /\ TeardownIdle
    /\ BroadcastStart
OthersBroadcast == <<serverVars, resolverVars, runVars, injectVars, submitVars, extractVars, orchVars, sseVars, configVars, managerVars, muVars, quizVars, parseVars, pairVars, statusVars, teardownVars>>
NextBroadcast ==
    \/ \E l \in Listeners : sseRegister(l) /\ UNCHANGED OthersBroadcast
    \/ \E l \in Listeners : sseLeave(l) /\ UNCHANGED OthersBroadcast
    \/ \E l \in Listeners : sseLock(l) /\ UNCHANGED OthersBroadcast
    \/ \E l \in Listeners : sseDelete(l) /\ UNCHANGED OthersBroadcast
    \/ \E l \in Listeners : sseClose(l) /\ UNCHANGED OthersBroadcast
    \/ \E l \in Listeners : sseUnlock(l) /\ UNCHANGED OthersBroadcast
    \/ \E s \in Senders : broadcastBegin(s) /\ UNCHANGED OthersBroadcast
    \/ \E s \in Senders : broadcastOffer(s) /\ UNCHANGED OthersBroadcast
    \/ \E s \in Senders : broadcastEnd(s) /\ UNCHANGED OthersBroadcast
SpecBroadcast == InitBroadcast /\ [][NextBroadcast]_vars

====
